---- MODULE Spec2Model ----
(***************************************************************************)
(* Resume screening pipeline: ResumeParser -> FeatureExtractor ->          *)
(* ResumeEvaluator, sequenced by R1Agent.runR1.                            *)
(*                                                                         *)
(* A JavaScript string is modelled as the sequence of its characters, each *)
(* character a one-letter TLA+ string, so that toLowerCase, includes, join *)
(* and the template literals are computed as the code computes them.  The  *)
(* check mark U+2713 of the match reasons is the one character written     *)
(* with a longer token, "U+2713".                                          *)
(***************************************************************************)
EXTENDS Integers, Sequences, FiniteSets, TLC

VARIABLES
    profile,        \* the ParsedResume handed to the evaluator
    requirements,   \* the JobRequirements of the call
    result,         \* the ScreeningResult of the last call, or NoResult
    calledAt,       \* the year the clock showed at the last call
    earlier,        \* an earlier call of the evaluator: its requirements, result and year
    now,            \* the year new Date().getFullYear() returns
    input,          \* the arguments of the runR1 call, or of the parseResume call
    errors,         \* R1Agent.errors, the agent's error log
    pending,        \* the outcome of the parse stage that runR1 awaits
    thrown,         \* the stage of the call that has thrown, and the message thrown
    pc              \* position of the call

vars == <<profile, requirements, result, calledAt, earlier, now, input, errors, pending,
          thrown, pc>>

---------------------------------------------------------------------------
(* Strings                                                                 *)

UpperChars == <<"A","B","C","D","E","F","G","H","I","J","K","L","M",
                "N","O","P","Q","R","S","T","U","V","W","X","Y","Z">>
LowerChars == <<"a","b","c","d","e","f","g","h","i","j","k","l","m",
                "n","o","p","q","r","s","t","u","v","w","x","y","z">>
Digits == <<"0","1","2","3","4","5","6","7","8","9">>

\* the lower-case letter of each upper-case letter
lowerOf ==
    [c \in {UpperChars[i] : i \in DOMAIN UpperChars} |->
        LowerChars[CHOOSE i \in DOMAIN UpperChars : UpperChars[i] = c]]

\* String.prototype.toLowerCase on one character
toLowerChar(c) == IF c \in DOMAIN lowerOf THEN lowerOf[c] ELSE c

\* the upper-case letter of each lower-case letter
upperOf ==
    [c \in {LowerChars[i] : i \in DOMAIN LowerChars} |->
        UpperChars[CHOOSE i \in DOMAIN LowerChars : LowerChars[i] = c]]

\* String.prototype.toUpperCase on one character
toUpperChar(c) == IF c \in DOMAIN upperOf THEN upperOf[c] ELSE c

\* String.prototype.toLowerCase
toLowerCase(s) == [i \in 1..Len(s) |-> toLowerChar(s[i])] \o <<>>

\* whether sub occurs in s at offset i (0-based)
occursAt(s, sub, i) ==
    /\ i + Len(sub) <= Len(s)
    /\ \A k \in 1..Len(sub) : s[i + k] = sub[k]

\* String.prototype.includes
includes(s, sub) == \E i \in 0..(Len(s) - Len(sub)) : occursAt(s, sub, i)

\* Array.prototype.includes on an array of strings
arrayIncludes(arr, s) == \E i \in 1..Len(arr) : arr[i] = s


\* Array.prototype.join
RECURSIVE join(_, _)
join(arr, sep) ==
    IF arr = <<>> THEN <<>>
    ELSE IF Len(arr) = 1 THEN arr[1]
    ELSE arr[1] \o sep \o join(Tail(arr), sep)

\* the decimal digits of a natural number
RECURSIVE natToString(_)
natToString(n) ==
    IF n < 10 THEN <<Digits[n + 1]>>
    ELSE natToString(n \div 10) \o <<Digits[(n % 10) + 1]>>

\* the text a template literal `${n}` gives for an integer
numberToString(n) == IF n < 0 THEN <<"-">> \o natToString(-n) ELSE natToString(n)

\* Array.prototype.reduce((total, x) => total + x, 0) on an array of numbers
RECURSIVE sum(_)
sum(arr) == IF arr = <<>> THEN 0 ELSE Head(arr) + sum(Tail(arr))

\* the quotient without its fraction
mathRoundDiv_truncates(num, den) == IF num >= 0 THEN num \div den ELSE -((-num) \div den)

\* Math.round(num / den) for den > 0: the nearest integer, halves towards +infinity
mathRoundDiv(num, den) == (2 * num + den) \div (2 * den)

\* the digit a character is, or -1
digitOf(c) == IF \E d \in 0..9 : Digits[d + 1] = c THEN CHOOSE d \in 0..9 : Digits[d + 1] = c ELSE -1

\* the number the decimal digits s[1..n] write
RECURSIVE digitsValue(_, _)
digitsValue(s, n) == IF n = 0 THEN 0 ELSE 10 * digitsValue(s, n - 1) + digitOf(s[n])

\* the value of an absent optional property
Undefined == <<"undefined">>

\* an absent optional property that holds an array
UndefinedArray == <<Undefined>>

---------------------------------------------------------------------------
(* Regular expressions                                                      *)
(*                                                                         *)
(* A pattern is a tree of nodes; Paths gives, for a node and an offset in  *)
(* the text, every way the node can match there, in the order a            *)
(* backtracking matcher tries them (greedy repetitions longest first, lazy *)
(* ones shortest first, alternatives left to right), so that the first     *)
(* path of the first offset with one is the match RegExp.exec returns.     *)
(* A path is its end offset and the span of capture group 1.               *)

UpperSet == {UpperChars[i] : i \in DOMAIN UpperChars}
LowerSet == {LowerChars[i] : i \in DOMAIN LowerChars}
DigitSet == {Digits[i] : i \in DOMAIN Digits}
WordSet == UpperSet \cup LowerSet \cup DigitSet \cup {"_"}
SpaceSet == {" ", "\t", "\n", "\r"}

Set(chars) == [op |-> "set", chars |-> chars]
Lit(text) == [op |-> "lit", text |-> text]
Cat(items) == [op |-> "cat", items |-> items]
Alt(items) == [op |-> "alt", items |-> items]
\* item{min,max}, max = -1 for no upper limit
Rep(item, min, max) == [op |-> "rep", item |-> item, min |-> min, max |-> max, greedy |-> TRUE]
Lazy(item, min, max) == [op |-> "rep", item |-> item, min |-> min, max |-> max, greedy |-> FALSE]
Group1(item) == [op |-> "group", item |-> item]
LineStart == [op |-> "bol"]
WordBoundary == [op |-> "wordb"]
Words(texts) == Alt([k \in 1..Len(texts) |-> Lit(texts[k])])

Path(e, g) == [e |-> e, g |-> g]

\* a character of a class, under the i flag whatever its case
charIn(c, chars, ignoreCase) ==
    \/ c \in chars
    \/ ignoreCase /\ (toLowerChar(c) \in chars \/ toUpperChar(c) \in chars)

litAt(s, text, i, ignoreCase) ==
    /\ i + Len(text) <= Len(s)
    /\ \A k \in 1..Len(text) :
           \/ s[i + k] = text[k]
           \/ ignoreCase /\ toLowerChar(s[i + k]) = toLowerChar(text[k])

isWordAt(s, i) == i >= 1 /\ i <= Len(s) /\ s[i] \in WordSet

\* the least element of a non-empty set of numbers
least(S) == CHOOSE x \in S : \A y \in S : x <= y

\* how many characters from offset i on belong to the class
runLength(s, i, chars, ignoreCase) ==
    LET stop == CHOOSE k \in i..Len(s) : k = Len(s) \/ ~charIn(s[k + 1], chars, ignoreCase)
    IN stop - i

RECURSIVE Paths(_, _, _, _)
RECURSIVE catPaths(_, _, _, _, _)
RECURSIVE catContinue(_, _, _, _, _, _, _)
RECURSIVE altPaths(_, _, _, _, _)
RECURSIVE repPaths(_, _, _, _, _, _)
RECURSIVE repContinue(_, _, _, _, _, _, _, _, _)

Paths(node, s, i, ignoreCase) ==
    CASE node.op = "set" ->
             IF i < Len(s) /\ charIn(s[i + 1], node.chars, ignoreCase)
             THEN <<Path(i + 1, <<>>)>> ELSE <<>>
      [] node.op = "lit" ->
             IF litAt(s, node.text, i, ignoreCase)
             THEN <<Path(i + Len(node.text), <<>>)>> ELSE <<>>
      [] node.op = "cat" -> catPaths(node.items, 1, s, i, ignoreCase)
      [] node.op = "alt" -> altPaths(node.items, 1, s, i, ignoreCase)
      [] node.op = "rep" -> repPaths(node, node.min, node.max, s, i, ignoreCase)
      [] node.op = "group" ->
             LET ps == Paths(node.item, s, i, ignoreCase)
             IN [k \in 1..Len(ps) |-> Path(ps[k].e, <<i, ps[k].e>>)]
      [] node.op = "bol" ->
             IF i = 0 \/ s[i] = "\n" THEN <<Path(i, <<>>)>> ELSE <<>>
      [] node.op = "wordb" ->
             IF isWordAt(s, i) # isWordAt(s, i + 1) THEN <<Path(i, <<>>)>> ELSE <<>>

\* items[k], items[k+1], ... one after the other from offset i
catPaths(items, k, s, i, ignoreCase) ==
    IF k > Len(items) THEN <<Path(i, <<>>)>>
    ELSE LET ps == Paths(items[k], s, i, ignoreCase)
         IN catContinue(ps, 1, Len(ps), items, k, s, ignoreCase)

\* the rest of the items after each of the paths ps[lo..hi], in their order
catContinue(ps, lo, hi, items, k, s, ignoreCase) ==
    IF lo > hi THEN <<>>
    ELSE IF lo = hi
    THEN LET rest == catPaths(items, k + 1, s, ps[lo].e, ignoreCase)
         IN [m \in 1..Len(rest) |->
                Path(rest[m].e, IF rest[m].g # <<>> THEN rest[m].g ELSE ps[lo].g)]
    ELSE LET mid == (lo + hi) \div 2
         IN catContinue(ps, lo, mid, items, k, s, ignoreCase)
            \o catContinue(ps, mid + 1, hi, items, k, s, ignoreCase)

altPaths(items, k, s, i, ignoreCase) ==
    IF k > Len(items) THEN <<>>
    ELSE Paths(items[k], s, i, ignoreCase) \o altPaths(items, k + 1, s, i, ignoreCase)

\* node.item repeated, min more times needed and max more allowed; a
\* repeated character class is the run of its characters, cut one by one
repPaths(node, min, max, s, i, ignoreCase) ==
    IF node.item.op = "set"
    THEN LET cuts(run) ==
                 LET most == IF max >= 0 /\ max < run THEN max ELSE run
                     least0 == IF min > 0 THEN min ELSE 0
                 IN IF most < least0 THEN <<>>
                    ELSE [k \in 1..(most - least0 + 1) |->
                             Path(i + (IF node.greedy THEN most - k + 1 ELSE least0 + k - 1),
                                  <<>>)]
         IN cuts(runLength(s, i, node.item.chars, ignoreCase))
    ELSE LET stop == IF min <= 0 THEN <<Path(i, <<>>)>> ELSE <<>>
             ps == Paths(node.item, s, i, ignoreCase)
             more == IF max = 0 THEN <<>>
                     ELSE repContinue(ps, 1, Len(ps), node, min, max, s, i, ignoreCase)
         IN IF node.greedy THEN more \o stop ELSE stop \o more

\* further repetitions after each of the paths ps[lo..hi]; an iteration that
\* matched nothing is not repeated
repContinue(ps, lo, hi, node, min, max, s, i, ignoreCase) ==
    IF lo > hi THEN <<>>
    ELSE IF lo = hi
    THEN IF ps[lo].e = i THEN <<>>
         ELSE repPaths(node, min - 1, IF max < 0 THEN max ELSE max - 1, s, ps[lo].e, ignoreCase)
    ELSE LET mid == (lo + hi) \div 2
         IN repContinue(ps, lo, mid, node, min, max, s, i, ignoreCase)
            \o repContinue(ps, mid + 1, hi, node, min, max, s, i, ignoreCase)

NoMatch == [found |-> FALSE, start |-> 0, end |-> 0, g |-> <<>>]

\* the first match at or after offset from: RegExp.exec with lastIndex = from
exec(re, s, from, ignoreCase) ==
    LET matchAt(i) ==
            LET first(p) == [found |-> TRUE, start |-> i, end |-> p.e, g |-> p.g]
            IN IF i > Len(s) THEN NoMatch ELSE first(Paths(re, s, i, ignoreCase)[1])
    IN matchAt(CHOOSE i \in from..(Len(s) + 1) :
                   i > Len(s) \/ Paths(re, s, i, ignoreCase) # <<>>)

\* match[0]
matched(s, m) == SubSeq(s, m.start + 1, m.end)

\* match[1] || match[0]
group1OrAll(s, m) ==
    IF m.g # <<>> /\ m.g[2] > m.g[1] THEN SubSeq(s, m.g[1] + 1, m.g[2]) ELSE matched(s, m)

\* every match[0] of String.prototype.matchAll with a g pattern
RECURSIVE matchAll(_, _, _, _)
matchAll(re, s, from, ignoreCase) ==
    LET next(m) ==
            IF ~m.found THEN <<>>
            ELSE <<matched(s, m)>>
                 \o matchAll(re, s, IF m.end = m.start THEN m.end + 1 ELSE m.end, ignoreCase)
    IN next(exec(re, s, from, ignoreCase))

---------------------------------------------------------------------------
(* JavaScript values                                                       *)
(*                                                                         *)
(* A property whose text the pipeline computes with is held as its text, a *)
(* sequence of characters, or as one of three marks for a value that is    *)
(* not a string.  A value the pipeline only tests or carries along (a      *)
(* property of a structured resume, the content of a resume input, an      *)
(* optional number or date of a profile) is held with its type.            *)

\* the text slot of a property that is null
Null == <<"null">>

\* the text slot of a property that holds a number, an array or an object
NotAString == <<"not-a-string">>

isString(t) == t \notin {Undefined, Null, NotAString}

\* a text slot that holds null, undefined or the empty string
falsyText(t) == t \in {Undefined, Null, <<>>}

Str(s) == [kind |-> "string", value |-> s]
Num(n) == [kind |-> "number", value |-> n]
Arr(items) == [kind |-> "array", value |-> items]
Obj(properties) == [kind |-> "object", value |-> properties]
Undef == [kind |-> "undefined", value |-> <<>>]
NullValue == [kind |-> "null", value |-> <<>>]

nullish(v) == v.kind \in {"undefined", "null"}

\* how an error message names a value that is null or undefined
nullishName(v) == IF v.kind = "null" THEN <<"n","u","l","l">> ELSE <<"u","n","d","e","f","i","n","e","d">>

\* obj.key for a value that is not null or undefined
get(v, key) ==
    IF v.kind = "object" /\ key \in DOMAIN v.value THEN v.value[key] ELSE Undef

\* ToBoolean
truthy(v) ==
    CASE v.kind = "string" -> v.value # <<>>
      [] v.kind = "number" -> v.value # 0
      [] v.kind \in {"undefined", "null"} -> FALSE
      [] OTHER -> TRUE

\* a || b
or(a, b) == IF truthy(a) THEN a ELSE b

\* the text slot that holds a value
textOf(v) ==
    CASE v.kind = "string" -> v.value
      [] v.kind = "undefined" -> Undefined
      [] v.kind = "null" -> Null
      [] OTHER -> NotAString

\* the outcome of a call: the value it returns or the message of the error it throws
Returned(v) == [threw |-> FALSE, message |-> <<>>, value |-> v]
Thrown(message) == [threw |-> TRUE, message |-> message, value |-> <<>>]

\* the messages of the engine's TypeErrors
cannotRead(kind, property) ==
    <<"C","a","n","n","o","t"," ","r","e","a","d"," ","p","r","o","p","e","r","t","i","e","s"," ","o","f"," ">> \o kind \o <<" ","(","r","e","a","d","i","n","g"," ","'">> \o property \o <<"'",")">>
notAFunction(expression) == expression \o <<" ","i","s"," ","n","o","t"," ","a"," ","f","u","n","c","t","i","o","n">>

\* the TypeError of receiver.method() for a receiver that is not a string
callError(receiver, expression, method) ==
    CASE receiver = Undefined -> cannotRead(<<"u","n","d","e","f","i","n","e","d">>, method)
      [] receiver = Null -> cannotRead(<<"n","u","l","l">>, method)
      [] OTHER -> notAFunction(expression \o <<".">> \o method)

---------------------------------------------------------------------------
(* Text                                                                    *)

\* the greatest element of a non-empty set of numbers
greatest(S) == CHOOSE x \in S : \A y \in S : x >= y

\* String.prototype.replace(pattern, to) for a pattern /[chars]+/g: every run
\* of characters of the class becomes one to
replaceRuns(s, chars, to) ==
    LET marked == [i \in 1..Len(s) |->
                      IF s[i] \in chars
                      THEN (IF i > 1 /\ s[i - 1] \in chars THEN "" ELSE to)
                      ELSE s[i]]
    IN SelectSeq(marked \o <<>>, LAMBDA c : c # "")

\* String.prototype.replace(pattern, '') for a pattern /[chars]/g
remove(s, chars) == SelectSeq(s, LAMBDA c : c \notin chars)

\* String.prototype.trim
trim(s) ==
    LET inked == {i \in 1..Len(s) : s[i] \notin SpaceSet}
    IN IF inked = {} THEN <<>> ELSE SubSeq(s, least(inked), greatest(inked))

\* String.prototype.split for a separator of one character
split(s, separator) ==
    LET cuts == {i \in 1..Len(s) : s[i] = separator}
        n == Cardinality(cuts)
        cut(k) == IF k = 0 THEN 0
                  ELSE IF k = n + 1 THEN Len(s) + 1
                  ELSE CHOOSE i \in cuts : Cardinality({j \in cuts : j < i}) = k - 1
    IN [k \in 1..(n + 1) |-> SubSeq(s, cut(k - 1) + 1, cut(k) - 1)]

\* how many decimal digits a text starts with
leadingDigits(s) == runLength(s, 0, DigitSet, FALSE)

\* parseInt of a number or of a text that starts with a digit
parseInt(v) ==
    CASE v.kind = "number" -> v.value
      [] v.kind = "string" /\ leadingDigits(v.value) > 0 ->
             digitsValue(v.value, leadingDigits(v.value))

---------------------------------------------------------------------------
(* ResumeParser                                                            *)

\* [A-Z][a-z]+(?:\s+[A-Z][a-z]+){1,3}
namePhrase ==
    Cat(<<Set(UpperSet), Rep(Set(LowerSet), 1, -1),
          Rep(Cat(<<Rep(Set(SpaceSet), 1, -1), Set(UpperSet), Rep(Set(LowerSet), 1, -1)>>), 1, 3)>>)

\* the three namePatterns of extractFullName; the first has the m flag, the others the i flag
namePatternAtLineStart == Cat(<<LineStart, Group1(namePhrase)>>)
namePatternAfterLabel ==
    Cat(<<Lit(<<"N","a","m","e">>), Rep(Set(SpaceSet \cup {":"}), 1, -1), Group1(namePhrase)>>)
namePatternBeforeResume ==
    Cat(<<Group1(namePhrase), Rep(Set(SpaceSet), 1, -1), Lit(<<"R","e","s","u","m","e">>)>>)

\* \b[A-Za-z0-9._%+-]+@[A-Za-z0-9.-]+\.[A-Z|a-z]{2,}\b
emailPattern ==
    Cat(<<WordBoundary,
          Rep(Set(UpperSet \cup LowerSet \cup DigitSet \cup {".", "_", "%", "+", "-"}), 1, -1),
          Lit(<<"@">>),
          Rep(Set(UpperSet \cup LowerSet \cup DigitSet \cup {".", "-"}), 1, -1),
          Lit(<<".">>),
          Rep(Set(UpperSet \cup LowerSet \cup {"|"}), 2, -1),
          WordBoundary>>)

\* [-.\s]
separatorChars == SpaceSet \cup {"-", "."}

\* (\+?1[-.\s]?)?\(?([0-9]{3})\)?[-.\s]?([0-9]{3})[-.\s]?([0-9]{4})
phonePatternNorthAmerican ==
    Cat(<<Rep(Cat(<<Rep(Lit(<<"+">>), 0, 1), Lit(<<"1">>), Rep(Set(separatorChars), 0, 1)>>), 0, 1),
          Rep(Lit(<<"(">>), 0, 1), Rep(Set(DigitSet), 3, 3), Rep(Lit(<<")">>), 0, 1),
          Rep(Set(separatorChars), 0, 1), Rep(Set(DigitSet), 3, 3),
          Rep(Set(separatorChars), 0, 1), Rep(Set(DigitSet), 4, 4)>>)

\* (\+?[0-9]{1,3}[-.\s]?)?([0-9]{3,4})[-.\s]?([0-9]{3,4})[-.\s]?([0-9]{3,4})
phonePatternInternational ==
    Cat(<<Rep(Cat(<<Rep(Lit(<<"+">>), 0, 1), Rep(Set(DigitSet), 1, 3),
                    Rep(Set(separatorChars), 0, 1)>>), 0, 1),
          Rep(Set(DigitSet), 3, 4), Rep(Set(separatorChars), 0, 1),
          Rep(Set(DigitSet), 3, 4), Rep(Set(separatorChars), 0, 1),
          Rep(Set(DigitSet), 3, 4)>>)

\* the two degreePatterns of extractEducation, both with the flags g and i
degreePatternByLevel ==
    Cat(<<Group1(Words(<< <<"B","a","c","h","e","l","o","r">>, <<"M","a","s","t","e","r">>, <<"P","h","D">>, <<"A","s","s","o","c","i","a","t","e">>, <<"H","i","g","h"," ","S","c","h","o","o","l">>,
                          <<"D","i","p","l","o","m","a">> >>)),
          Lazy(Set(SpaceSet \cup WordSet), 0, -1),
          Words(<< <<"o","f">>, <<"i","n">>, <<"S","c","i","e","n","c","e">>, <<"A","r","t","s">>, <<"E","n","g","i","n","e","e","r","i","n","g">>, <<"T","e","c","h","n","o","l","o","g","y">>,
                   <<"C","o","m","p","u","t","e","r">>, <<"B","u","s","i","n","e","s","s">> >>)>>)
degreePatternByNoun ==
    Cat(<<Group1(Cat(<<Set(UpperSet), Rep(Set(LowerSet), 1, -1)>>)),
          Rep(Set(SpaceSet), 1, -1),
          Words(<< <<"D","e","g","r","e","e">>, <<"D","i","p","l","o","m","a">>, <<"C","e","r","t","i","f","i","c","a","t","e">> >>)>>)

\* the two institutionPatterns of extractEducation, both with the flags g and i
institutionPatternOf ==
    Cat(<<Words(<< <<"U","n","i","v","e","r","s","i","t","y">>, <<"C","o","l","l","e","g","e">>, <<"I","n","s","t","i","t","u","t","e">>, <<"S","c","h","o","o","l">> >>),
          Rep(Set(SpaceSet), 1, -1), Lit(<<"o","f">>), Rep(Set(SpaceSet), 1, -1),
          Group1(Cat(<<Set(UpperSet), Rep(Set(LowerSet \cup SpaceSet), 1, -1)>>))>>)
institutionPatternNamed ==
    Cat(<<Group1(Cat(<<Set(UpperSet), Rep(Set(LowerSet \cup SpaceSet), 1, -1)>>)),
          Rep(Set(SpaceSet), 1, -1),
          Words(<< <<"U","n","i","v","e","r","s","i","t","y">>, <<"C","o","l","l","e","g","e">>, <<"I","n","s","t","i","t","u","t","e">> >>)>>)

\* (?:20\d{2}|19\d{2}), with the flag g
yearPattern ==
    Alt(<<Cat(<<Lit(<<"2","0">>), Rep(Set(DigitSet), 2, 2)>>),
          Cat(<<Lit(<<"1","9">>), Rep(Set(DigitSet), 2, 2)>>)>>)

\* (?:in|of)\s+([A-Z][a-z\s]+), with the flag i
fieldPattern ==
    Cat(<<Words(<< <<"i","n">>, <<"o","f">> >>), Rep(Set(SpaceSet), 1, -1),
          Group1(Cat(<<Set(UpperSet), Rep(Set(LowerSet \cup SpaceSet), 1, -1)>>))>>)

jobTitles ==
    << <<"E","n","g","i","n","e","e","r">>, <<"D","e","v","e","l","o","p","e","r">>, <<"M","a","n","a","g","e","r">>, <<"A","n","a","l","y","s","t">>, <<"S","p","e","c","i","a","l","i","s","t">>, <<"C","o","o","r","d","i","n","a","t","o","r">>,
       <<"D","i","r","e","c","t","o","r">>, <<"L","e","a","d">>, <<"S","e","n","i","o","r">>, <<"J","u","n","i","o","r">>, <<"P","r","i","n","c","i","p","a","l">>, <<"A","r","c","h","i","t","e","c","t">>,
       <<"C","o","n","s","u","l","t","a","n","t">> >>

\* new RegExp(`(${jobTitles.join('|')})`, 'gi')
titlePattern == Group1(Words(jobTitles))

\* (?:at|with|for)\s+([A-Z][a-z\s&]+(?:Inc|LLC|Corp|Company|Ltd)), with the flags g and i
companyPattern ==
    Cat(<<Words(<< <<"a","t">>, <<"w","i","t","h">>, <<"f","o","r">> >>), Rep(Set(SpaceSet), 1, -1),
          Group1(Cat(<<Set(UpperSet), Rep(Set(LowerSet \cup SpaceSet \cup {"&"}), 1, -1),
                       Words(<< <<"I","n","c">>, <<"L","L","C">>, <<"C","o","r","p">>, <<"C","o","m","p","a","n","y">>, <<"L","t","d">> >>)>>))>>)

\* ([A-Z][a-z\s]+(?:Certification|Certificate|Certified)), with the flags g and i
certPattern ==
    Group1(Cat(<<Set(UpperSet), Rep(Set(LowerSet \cup SpaceSet), 1, -1),
                 Words(<< <<"C","e","r","t","i","f","i","c","a","t","i","o","n">>, <<"C","e","r","t","i","f","i","c","a","t","e">>, <<"C","e","r","t","i","f","i","e","d">> >>)>>))

technicalSkills ==
    << <<"J","a","v","a","S","c","r","i","p","t">>, <<"P","y","t","h","o","n">>, <<"J","a","v","a">>, <<"C","+","+">>, <<"R","e","a","c","t">>, <<"A","n","g","u","l","a","r">>, <<"V","u","e">>,
       <<"N","o","d","e",".","j","s">>, <<"S","Q","L">>, <<"M","o","n","g","o","D","B">>, <<"A","W","S">>, <<"A","z","u","r","e">>, <<"D","o","c","k","e","r">>, <<"K","u","b","e","r","n","e","t","e","s">>,
       <<"G","i","t">>, <<"L","i","n","u","x">>, <<"H","T","M","L">>, <<"C","S","S">>, <<"T","y","p","e","S","c","r","i","p","t">>, <<"P","H","P">>, <<"R","u","b","y">>, <<"G","o">>,
       <<"R","u","s","t">>, <<"S","w","i","f","t">>, <<"K","o","t","l","i","n">> >>

\* new RegExp(source, 'gi') for the source `(${technicalSkills.join('|')})`: the
\* alternative C++ puts a quantifier after a quantifier, which is no pattern,
\* and the constructor throws a SyntaxError
skillPattern ==
    LET source == <<"(">> \o join(technicalSkills, <<"|">>) \o <<")">>
    IN IF includes(source, <<"+","+">>)
       THEN Thrown(<<"I","n","v","a","l","i","d"," ","r","e","g","u","l","a","r"," ","e","x","p","r","e","s","s","i","o","n",":"," ","/">> \o source \o <<"/",":"," ","N","o","t","h","i","n","g"," ","t","o"," ","r","e","p","e","a","t">>)
       ELSE Returned(Group1(Words(technicalSkills)))

normalizeText(rawText) ==
    trim(replaceRuns(replaceRuns(rawText, SpaceSet, " "), {"\n"}, "\n"))

\* the lines between the first line that holds one of the keywords and the
\* next line that holds a section word, joined again, or null
extractSection(normalizedText, keywords) ==
    LET opens(line) == \E w \in 1..Len(keywords) : includes(toLowerCase(line), keywords[w])
        closes(line) == \/ includes(toLowerCase(line), <<"e","x","p","e","r","i","e","n","c","e">>)
                        \/ includes(toLowerCase(line), <<"e","d","u","c","a","t","i","o","n">>)
                        \/ includes(toLowerCase(line), <<"s","k","i","l","l","s">>)
                        \/ includes(toLowerCase(line), <<"c","e","r","t","i","f","i","c","a","t","i","o","n","s">>)
        joined(sectionContent) ==
            IF sectionContent = <<>> THEN Null
            ELSE join([k \in 1..Len(sectionContent) |-> sectionContent[k][1]], <<"\n">>)
        content(lines, first, last) ==
            joined(SelectSeq([k \in 1..Len(lines) |->
                                 IF k > first /\ k <= last /\ ~opens(lines[k])
                                 THEN <<lines[k]>> ELSE <<>>],
                             LAMBDA kept : kept # <<>>))
        upTo(lines, first, closing) ==
            content(lines, first, IF closing = {} THEN Len(lines) ELSE least(closing) - 1)
        after(lines, first) ==
            upTo(lines, first,
                 {k \in (first + 1)..Len(lines) : ~opens(lines[k]) /\ closes(lines[k])})
        within(lines, opening) == IF opening = {} THEN Null ELSE after(lines, least(opening))
        inLines(lines) == within(lines, {k \in 1..Len(lines) : opens(lines[k])})
    IN inLines(split(normalizedText, "\n"))

extractFullName(normalizedText) ==
    LET firstOf(atLineStart, afterLabel, beforeResume) ==
            IF atLineStart.found THEN group1OrAll(normalizedText, atLineStart)
            ELSE IF afterLabel.found THEN group1OrAll(normalizedText, afterLabel)
            ELSE IF beforeResume.found THEN group1OrAll(normalizedText, beforeResume)
            ELSE <<"U","n","k","n","o","w","n">>
    IN firstOf(exec(namePatternAtLineStart, normalizedText, 0, FALSE),
               exec(namePatternAfterLabel, normalizedText, 0, TRUE),
               exec(namePatternBeforeResume, normalizedText, 0, TRUE))

extractEmail(normalizedText) ==
    LET emailOf(match) == IF match.found THEN matched(normalizedText, match) ELSE <<>>
    IN emailOf(exec(emailPattern, normalizedText, 0, FALSE))

extractPhone(normalizedText) ==
    LET firstOf(northAmerican, international) ==
            IF northAmerican.found
            THEN remove(matched(normalizedText, northAmerican), separatorChars)
            ELSE IF international.found
            THEN remove(matched(normalizedText, international), separatorChars)
            ELSE <<>>
    IN firstOf(exec(phonePatternNorthAmerican, normalizedText, 0, FALSE),
               exec(phonePatternInternational, normalizedText, 0, FALSE))

\* text.match(pattern) gives every match[0] for a pattern with the g flag, so
\* that match[1] is the second match, not the captured group
findInstitution(sectionText) ==
    LET secondOrFirst(matches) == IF Len(matches) >= 2 THEN matches[2] ELSE matches[1]
        firstOf(byOf, named) ==
            IF byOf # <<>> THEN secondOrFirst(byOf)
            ELSE IF named # <<>> THEN secondOrFirst(named)
            ELSE Null
    IN firstOf(matchAll(institutionPatternOf, sectionText, 0, TRUE),
               matchAll(institutionPatternNamed, sectionText, 0, TRUE))

extractYear(sectionText) ==
    LET yearOf(matches) == IF matches # <<>> THEN Num(parseInt(Str(matches[1]))) ELSE Undef
    IN yearOf(matchAll(yearPattern, sectionText, 0, FALSE))

extractField(degree) ==
    LET fieldOf(match) ==
            IF match.found THEN SubSeq(degree, match.g[1] + 1, match.g[2]) ELSE Undefined
    IN fieldOf(exec(fieldPattern, degree, 0, TRUE))

\* match[1] of text.match(pattern) for a pattern with the g flag: the second match
findCompany(sectionText) ==
    LET second(matches) ==
            IF matches = <<>> THEN Null
            ELSE IF Len(matches) >= 2 THEN matches[2] ELSE Undefined
    IN second(matchAll(companyPattern, sectionText, 0, TRUE))

extractDates(sectionText) ==
    LET firstTwo(dates) ==
            [start |-> IF Len(dates) >= 1 THEN Str(dates[1]) ELSE Undef,
             end |-> IF Len(dates) >= 2 THEN Str(dates[2]) ELSE Undef]
    IN firstTwo(matchAll(yearPattern, sectionText, 0, FALSE))

\* the months from the year of start to the year of end, or to the current year
calculateDuration(start, end) ==
    IF ~truthy(start) THEN 0
    ELSE LET startYear == parseInt(start)
             endYear == IF truthy(end) THEN parseInt(end) ELSE now
         IN (endYear - startYear) * 12

extractEducation(normalizedText) ==
    LET entries(degrees, institution, year) ==
            [k \in 1..Len(degrees) |->
                [degree |-> trim(degrees[k]),
                 institution |-> IF falsyText(institution)
                                 THEN <<"U","n","k","n","o","w","n"," ","I","n","s","t","i","t","u","t","i","o","n">> ELSE institution,
                 graduationYear |-> year,
                 field |-> extractField(degrees[k])]] \o <<>>
        inSection(educationSection) ==
            IF falsyText(educationSection) THEN <<>>
            ELSE entries(matchAll(degreePatternByLevel, educationSection, 0, TRUE)
                         \o matchAll(degreePatternByNoun, educationSection, 0, TRUE),
                         findInstitution(educationSection),
                         extractYear(educationSection))
    IN inSection(extractSection(normalizedText, << <<"e","d","u","c","a","t","i","o","n">>, <<"a","c","a","d","e","m","i","c">>, <<"d","e","g","r","e","e">> >>))

extractWorkExperience(normalizedText) ==
    LET entries(titles, company, dates) ==
            [k \in 1..Len(titles) |->
                [title |-> trim(titles[k]),
                 company |-> IF falsyText(company)
                             THEN <<"U","n","k","n","o","w","n"," ","C","o","m","p","a","n","y">> ELSE company,
                 startDate |-> textOf(or(dates.start, Str(<<>>))),
                 endDate |-> textOf(dates.end),
                 duration |-> calculateDuration(dates.start, dates.end),
                 description |-> <<>>,
                 technologies |-> Arr(<<>>)]] \o <<>>
        inSection(experienceSection) ==
            IF falsyText(experienceSection) THEN <<>>
            ELSE entries(matchAll(titlePattern, experienceSection, 0, TRUE),
                         findCompany(experienceSection),
                         extractDates(experienceSection))
    IN inSection(extractSection(normalizedText, << <<"e","x","p","e","r","i","e","n","c","e">>, <<"w","o","r","k">>, <<"e","m","p","l","o","y","m","e","n","t">> >>))

extractSkills(normalizedText) ==
    LET entries(names) ==
            [k \in 1..Len(names) |->
                [name |-> names[k], category |-> <<"t","e","c","h","n","i","c","a","l">>,
                 proficiency |-> <<"i","n","t","e","r","m","e","d","i","a","t","e">>]] \o <<>>
        matching(pattern, skillsSection) ==
            IF pattern.threw THEN pattern
            ELSE Returned(entries(matchAll(pattern.value, skillsSection, 0, TRUE)))
        inSection(skillsSection) ==
            IF falsyText(skillsSection) THEN Returned(<<>>)
            ELSE matching(skillPattern, skillsSection)
    IN inSection(extractSection(normalizedText,
                                << <<"s","k","i","l","l","s">>, <<"t","e","c","h","n","i","c","a","l"," ","s","k","i","l","l","s">>, <<"c","o","m","p","e","t","e","n","c","i","e","s">> >>))

extractCertifications(normalizedText) ==
    LET entries(names) ==
            [k \in 1..Len(names) |->
                [name |-> names[k], issuingOrganization |-> <<"U","n","k","n","o","w","n">>,
                 issueDate |-> Undef, expiryDate |-> Undef, credentialId |-> Undef]] \o <<>>
        inSection(certSection) ==
            IF falsyText(certSection) THEN <<>>
            ELSE entries(matchAll(certPattern, certSection, 0, TRUE))
    IN inSection(extractSection(normalizedText,
                                << <<"c","e","r","t","i","f","i","c","a","t","i","o","n","s">>, <<"c","e","r","t","i","f","i","c","a","t","e","s">>, <<"c","r","e","d","e","n","t","i","a","l","s">> >>))

parseRawResume(rawText) ==
    LET extracted(normalizedText, skills) ==
            IF skills.threw THEN skills
            ELSE Returned([fullName |-> extractFullName(normalizedText),
                           email |-> extractEmail(normalizedText),
                           phone |-> extractPhone(normalizedText),
                           education |-> extractEducation(normalizedText),
                           workExperience |-> extractWorkExperience(normalizedText),
                           skills |-> skills.value,
                           certifications |-> extractCertifications(normalizedText),
                           rawText |-> rawText])
        parsed(normalizedText) == extracted(normalizedText, extractSkills(normalizedText))
    IN parsed(normalizeText(rawText))

\* no error
NoError == <<>>

\* the TypeError of list.map(item => item.property ...) for a list that is no
\* array or that holds null or undefined, or NoError
mapError(list, expression, property) ==
    IF list.kind # "array" THEN notAFunction(expression \o <<".","m","a","p">>)
    ELSE LET holes == {i \in 1..Len(list.value) : nullish(list.value[i])}
         IN IF holes = {} THEN NoError
            ELSE cannotRead(nullishName(list.value[least(holes)]), property)

normalizeEducation(education) ==
    IF mapError(education, <<"e","d","u","c","a","t","i","o","n">>, <<"d","e","g","r","e","e">>) # NoError
    THEN Thrown(mapError(education, <<"e","d","u","c","a","t","i","o","n">>, <<"d","e","g","r","e","e">>))
    ELSE Returned([i \in 1..Len(education.value) |->
             LET edu == education.value[i]
             IN [degree |-> textOf(or(or(get(edu, "degree"), get(edu, "name")),
                                      Str(<<"U","n","k","n","o","w","n">>))),
                 institution |-> textOf(or(or(or(get(edu, "institution"), get(edu, "school")),
                                              get(edu, "university")), Str(<<"U","n","k","n","o","w","n">>))),
                 graduationYear |-> or(or(get(edu, "graduationYear"), get(edu, "year")),
                                       get(edu, "graduationDate")),
                 field |-> textOf(or(or(get(edu, "field"), get(edu, "major")),
                                     get(edu, "study"))),
                 gpa |-> get(edu, "gpa")]] \o <<>>)

normalizeWorkExperience(experience) ==
    IF mapError(experience, <<"e","x","p","e","r","i","e","n","c","e">>, <<"t","i","t","l","e">>) # NoError
    THEN Thrown(mapError(experience, <<"e","x","p","e","r","i","e","n","c","e">>, <<"t","i","t","l","e">>))
    ELSE Returned([i \in 1..Len(experience.value) |->
             LET exp == experience.value[i]
             IN [title |-> textOf(or(or(or(get(exp, "title"), get(exp, "jobTitle")),
                                        get(exp, "position")), Str(<<"U","n","k","n","o","w","n">>))),
                 company |-> textOf(or(or(or(get(exp, "company"), get(exp, "employer")),
                                          get(exp, "organization")), Str(<<"U","n","k","n","o","w","n">>))),
                 startDate |-> textOf(or(or(or(get(exp, "startDate"), get(exp, "start")),
                                            get(exp, "from")), Str(<<>>))),
                 endDate |-> textOf(or(or(get(exp, "endDate"), get(exp, "end")),
                                       get(exp, "to"))),
                 duration |-> IF truthy(get(exp, "duration"))
                              THEN get(exp, "duration").value
                              ELSE calculateDuration(get(exp, "startDate"), get(exp, "endDate")),
                 description |-> textOf(or(or(get(exp, "description"), get(exp, "summary")),
                                           Str(<<>>))),
                 technologies |-> or(or(or(get(exp, "technologies"), get(exp, "tech")),
                                        get(exp, "skills")), Arr(<<>>))]] \o <<>>)

normalizeSkills(skills) ==
    IF mapError(skills, <<"s","k","i","l","l","s">>, <<"n","a","m","e">>) # NoError
    THEN Thrown(mapError(skills, <<"s","k","i","l","l","s">>, <<"n","a","m","e">>))
    ELSE Returned([i \in 1..Len(skills.value) |->
             LET skill == skills.value[i]
             IN IF skill.kind = "string"
                THEN [name |-> skill.value, category |-> <<"t","e","c","h","n","i","c","a","l">>,
                      proficiency |-> <<"i","n","t","e","r","m","e","d","i","a","t","e">>]
                ELSE [name |-> textOf(or(or(get(skill, "name"), get(skill, "skill")),
                                         Str(<<"U","n","k","n","o","w","n">>))),
                      category |-> textOf(or(get(skill, "category"), Str(<<"t","e","c","h","n","i","c","a","l">>))),
                      proficiency |-> textOf(or(get(skill, "proficiency"),
                                                Str(<<"i","n","t","e","r","m","e","d","i","a","t","e">>))),
                      yearsOfExperience |-> or(get(skill, "yearsOfExperience"),
                                               get(skill, "years"))]] \o <<>>)

normalizeCertifications(certifications) ==
    IF mapError(certifications, <<"c","e","r","t","i","f","i","c","a","t","i","o","n","s">>, <<"n","a","m","e">>) # NoError
    THEN Thrown(mapError(certifications, <<"c","e","r","t","i","f","i","c","a","t","i","o","n","s">>, <<"n","a","m","e">>))
    ELSE Returned([i \in 1..Len(certifications.value) |->
             LET cert == certifications.value[i]
             IN [name |-> textOf(or(or(get(cert, "name"), get(cert, "certification")),
                                    Str(<<"U","n","k","n","o","w","n">>))),
                 issuingOrganization |->
                     textOf(or(or(or(get(cert, "issuingOrganization"), get(cert, "issuer")),
                                  get(cert, "organization")), Str(<<"U","n","k","n","o","w","n">>))),
                 issueDate |-> or(or(get(cert, "issueDate"), get(cert, "issued")),
                                  get(cert, "date")),
                 expiryDate |-> or(or(get(cert, "expiryDate"), get(cert, "expires")),
                                   get(cert, "expiration")),
                 credentialId |-> or(or(get(cert, "credentialId"), get(cert, "id")),
                                     get(cert, "credential"))]] \o <<>>)

\* parseStructuredResume that leaves a missing name, email or phone undefined
parseStructuredResume_withoutDefaults(data) ==
    LET education == normalizeEducation(or(get(data, "education"), Arr(<<>>)))
        workExperience == normalizeWorkExperience(
                              or(or(get(data, "experience"), get(data, "workExperience")),
                                 Arr(<<>>)))
        skills == normalizeSkills(or(get(data, "skills"), Arr(<<>>)))
        certifications == normalizeCertifications(or(get(data, "certifications"), Arr(<<>>)))
    IN IF education.threw THEN education
       ELSE IF workExperience.threw THEN workExperience
       ELSE IF skills.threw THEN skills
       ELSE IF certifications.threw THEN certifications
       ELSE Returned([fullName |-> textOf(or(get(data, "name"), get(data, "fullName"))),
                      email |-> textOf(get(data, "email")),
                      phone |-> textOf(or(get(data, "phone"), get(data, "phoneNumber"))),
                      education |-> education.value,
                      workExperience |-> workExperience.value,
                      skills |-> skills.value,
                      certifications |-> certifications.value])

\* the properties are computed in the order of the object literal, and the
\* first list that cannot be mapped ends the call
parseStructuredResume(data) ==
    LET education == normalizeEducation(or(get(data, "education"), Arr(<<>>)))
        workExperience == normalizeWorkExperience(
                              or(or(get(data, "experience"), get(data, "workExperience")),
                                 Arr(<<>>)))
        skills == normalizeSkills(or(get(data, "skills"), Arr(<<>>)))
        certifications == normalizeCertifications(or(get(data, "certifications"), Arr(<<>>)))
    IN IF education.threw THEN education
       ELSE IF workExperience.threw THEN workExperience
       ELSE IF skills.threw THEN skills
       ELSE IF certifications.threw THEN certifications
       ELSE Returned([fullName |-> textOf(or(or(get(data, "name"), get(data, "fullName")),
                                             Str(<<"U","n","k","n","o","w","n">>))),
                      email |-> textOf(or(get(data, "email"), Str(<<>>))),
                      phone |-> textOf(or(or(get(data, "phone"), get(data, "phoneNumber")),
                                          Str(<<>>))),
                      education |-> education.value,
                      workExperience |-> workExperience.value,
                      skills |-> skills.value,
                      certifications |-> certifications.value])

\* parseResume that takes the empty text for no input
parseResume_rejectsEmptyText(content) ==
    IF content.kind = "string" /\ content.value # <<>> THEN parseRawResume(content.value)
    ELSE IF content.kind \in {"object", "array"} THEN parseStructuredResume(content)
    ELSE Thrown(<<"I","n","v","a","l","i","d"," ","i","n","p","u","t"," ","f","o","r","m","a","t","."," ","E","x","p","e","c","t","e","d"," ","s","t","r","i","n","g"," ","o","r"," ","o","b","j","e","c","t",".">>)

\* typeof input is 'object' for an object and for an array
parseResume(content) ==
    IF content.kind = "string" THEN parseRawResume(content.value)
    ELSE IF content.kind \in {"object", "array"} THEN parseStructuredResume(content)
    ELSE Thrown(<<"I","n","v","a","l","i","d"," ","i","n","p","u","t"," ","f","o","r","m","a","t","."," ","E","x","p","e","c","t","e","d"," ","s","t","r","i","n","g"," ","o","r"," ","o","b","j","e","c","t",".">>)


---------------------------------------------------------------------------
(* ResumeEvaluator                                                         *)

\* points of the seven awards and the pass threshold, in hundredths
ExperienceMinimumPoints == 20
ExperienceRelevantPoints == 10
SkillsRequiredPoints == 25
SkillsMatchPoints == 15
EducationLevelPoints == 15
EducationRelevantPoints == 5
CertificationPoints == 10
ExperienceWeight == 30
SkillsWeight == 40
EducationWeight == 20
CertificationWeight == 10
PassThreshold == 70
SkillMatchThreshold == 50

relevantKeywords ==
    << <<"s","o","f","t","w","a","r","e">>, <<"d","e","v","e","l","o","p","e","r">>, <<"e","n","g","i","n","e","e","r">>, <<"p","r","o","g","r","a","m","m","e","r">>, <<"c","o","d","i","n","g">>,
       <<"w","e","b">>, <<"a","p","p","l","i","c","a","t","i","o","n">>, <<"s","y","s","t","e","m">>, <<"d","a","t","a","b","a","s","e">>, <<"f","r","o","n","t","e","n","d">>, <<"b","a","c","k","e","n","d">> >>

allSkills ==
    << <<"J","a","v","a","S","c","r","i","p","t">>, <<"P","y","t","h","o","n">>, <<"J","a","v","a">>, <<"C","+","+">>, <<"R","e","a","c","t">>, <<"A","n","g","u","l","a","r">>, <<"V","u","e">>,
       <<"N","o","d","e",".","j","s">>, <<"S","Q","L">>, <<"M","o","n","g","o","D","B">>, <<"A","W","S">>, <<"A","z","u","r","e">>, <<"D","o","c","k","e","r">>, <<"K","u","b","e","r","n","e","t","e","s">>,
       <<"G","i","t">>, <<"L","i","n","u","x">>, <<"H","T","M","L">>, <<"C","S","S">>, <<"T","y","p","e","S","c","r","i","p","t">>, <<"P","H","P">>, <<"R","u","b","y">>, <<"G","o">>,
       <<"R","u","s","t">>, <<"S","w","i","f","t">>, <<"K","o","t","l","i","n">> >>

requiredSkills ==
    << <<"J","a","v","a","S","c","r","i","p","t">>, <<"P","y","t","h","o","n">>, <<"J","a","v","a">>, <<"R","e","a","c","t">>, <<"N","o","d","e",".","j","s">>, <<"S","Q","L">>,
       <<"G","i","t">>, <<"H","T","M","L">>, <<"C","S","S">>, <<"T","y","p","e","S","c","r","i","p","t">>, <<"A","W","S">>, <<"D","o","c","k","e","r">> >>

relevantFields ==
    << <<"c","o","m","p","u","t","e","r"," ","s","c","i","e","n","c","e">>, <<"s","o","f","t","w","a","r","e"," ","e","n","g","i","n","e","e","r","i","n","g">>, <<"i","n","f","o","r","m","a","t","i","o","n"," ","t","e","c","h","n","o","l","o","g","y">>,
       <<"d","a","t","a"," ","s","c","i","e","n","c","e">>, <<"e","n","g","i","n","e","e","r","i","n","g">>, <<"m","a","t","h","e","m","a","t","i","c","s">>, <<"p","h","y","s","i","c","s">> >>

\* levelHierarchy[level] || 0
levelHierarchy(level) ==
    CASE level = <<"h","i","g","h","_","s","c","h","o","o","l">> -> 1
      [] level = <<"a","s","s","o","c","i","a","t","e">> -> 2
      [] level = <<"b","a","c","h","e","l","o","r">> -> 3
      [] level = <<"m","a","s","t","e","r">> -> 4
      [] level = <<"p","h","d">> -> 5
      [] OTHER -> 0

\* skills.map(skill => skill.name.toLowerCase())
candidateSkillNames(skills) == [i \in 1..Len(skills) |-> toLowerCase(skills[i].name)] \o <<>>

\* the length of a string; a number has no length, and undefined > 0 is false
hasValidContact(candidateData) ==
    /\ isString(candidateData.email) /\ Len(candidateData.email) > 0
    /\ isString(candidateData.phone) /\ Len(candidateData.phone) > 0

\* the months of an entry without end date counted up to the current year
calculateTotalExperience_openEndedToNow(workExperience) ==
    mathRoundDiv(sum([i \in 1..Len(workExperience) |->
                         IF workExperience[i].endDate = Undefined
                         THEN (now - digitsValue(workExperience[i].startDate,
                                                 Len(workExperience[i].startDate))) * 12
                         ELSE workExperience[i].duration]), 12)

\* the years of the last entry alone
calculateTotalExperience_lastEntryOnly(workExperience) ==
    mathRoundDiv(IF Len(workExperience) = 0 THEN 0
                 ELSE workExperience[Len(workExperience)].duration, 12)

calculateTotalExperience(workExperience) ==
    mathRoundDiv(sum([i \in 1..Len(workExperience) |-> workExperience[i].duration]), 12)

hasRelevantExperience(workExperience) ==
    \E i \in 1..Len(workExperience) :
        LET title == toLowerCase(workExperience[i].title)
            description == IF workExperience[i].description \in {Undefined, Null}
                           THEN <<>>
                           ELSE toLowerCase(workExperience[i].description)
        IN \E k \in 1..Len(relevantKeywords) :
               includes(title, relevantKeywords[k]) \/ includes(description, relevantKeywords[k])

analyzeSkillMatch(skills) ==
    LET names == candidateSkillNames(skills)
        isMatched(skill) == arrayIncludes(names, toLowerCase(skill))
        matchedSkills == SelectSeq(allSkills, isMatched)
    IN [matched |-> matchedSkills,
        percentage |-> mathRoundDiv(Len(matchedSkills) * 100, Len(allSkills))]

hasRequiredSkills(skills) ==
    LET names == candidateSkillNames(skills)
    IN \E k \in 1..Len(requiredSkills) : arrayIncludes(names, toLowerCase(requiredSkills[k]))

\* the level one degree contributes: the first tier of the else-if chain that matches
degreeTier(degreeText) ==
    LET degree == toLowerCase(degreeText)
    IN IF includes(degree, <<"p","h","d">>) \/ includes(degree, <<"d","o","c","t","o","r","a","t","e">>) THEN <<"p","h","d">>
       ELSE IF includes(degree, <<"m","a","s","t","e","r">>) \/ includes(degree, <<"m","s">>) \/ includes(degree, <<"m","a">>)
            THEN <<"m","a","s","t","e","r">>
       ELSE IF includes(degree, <<"b","a","c","h","e","l","o","r">>) \/ includes(degree, <<"b","s">>) \/ includes(degree, <<"b","a">>)
            THEN <<"b","a","c","h","e","l","o","r">>
       ELSE IF includes(degree, <<"a","s","s","o","c","i","a","t","e">>) \/ includes(degree, <<"a","a">>) \/ includes(degree, <<"a","s">>)
            THEN <<"a","s","s","o","c","i","a","t","e">>
       ELSE <<"h","i","g","h","_","s","c","h","o","o","l">>

\* the loop that keeps the level of the last entry
highestLevelAfter_lastEntry(education, n) ==
    IF n = 0 THEN <<"h","i","g","h","_","s","c","h","o","o","l">> ELSE degreeTier(education[n].degree)

\* the loop of determineEducationLevel over education[1..n], from highestLevel 'high_school'
RECURSIVE highestLevelAfter(_, _)
highestLevelAfter(education, n) ==
    IF n = 0 THEN <<"h","i","g","h","_","s","c","h","o","o","l">>
    ELSE LET highestLevel == highestLevelAfter(education, n - 1)
             tier == degreeTier(education[n].degree)
         IN IF tier # <<"h","i","g","h","_","s","c","h","o","o","l">> /\ levelHierarchy(tier) > levelHierarchy(highestLevel)
            THEN tier
            ELSE highestLevel

determineEducationLevel(education) ==
    IF Len(education) = 0 THEN <<"h","i","g","h","_","s","c","h","o","o","l">>
    ELSE highestLevelAfter(education, Len(education))

hasRelevantEducation(education) ==
    \E i \in 1..Len(education) :
        LET field == IF education[i].field \in {Undefined, Null} THEN <<>>
                     ELSE toLowerCase(education[i].field)
        IN \E k \in 1..Len(relevantFields) : includes(field, relevantFields[k])

calculateCompleteness(candidateData) ==
    LET score == (IF candidateData.fullName # <<"U","n","k","n","o","w","n">> THEN 10 ELSE 0)
               + (IF ~falsyText(candidateData.email) THEN 5 ELSE 0)
               + (IF ~falsyText(candidateData.phone) THEN 5 ELSE 0)
               + (IF Len(candidateData.workExperience) > 0 THEN 30 ELSE 0)
               + (IF Len(candidateData.education) > 0 THEN 20 ELSE 0)
               + (IF Len(candidateData.skills) > 0 THEN 20 ELSE 0)
               + (IF Len(candidateData.certifications) > 0 THEN 10 ELSE 0)
    IN IF score < 100 THEN score ELSE 100

extractEvaluationFeatures(candidateData) ==
    [hasValidContact |-> hasValidContact(candidateData),
     totalExperience |-> calculateTotalExperience(candidateData.workExperience),
     hasRelevantExperience |-> hasRelevantExperience(candidateData.workExperience),
     skillMatch |-> analyzeSkillMatch(candidateData.skills),
     hasRequiredSkills |-> hasRequiredSkills(candidateData.skills),
     educationLevel |-> determineEducationLevel(candidateData.education),
     hasRelevantEducation |-> hasRelevantEducation(candidateData.education),
     hasCertifications |-> Len(candidateData.certifications) > 0,
     resumeCompleteness |-> calculateCompleteness(candidateData),
     candidateSkillNames |-> candidateSkillNames(candidateData.skills)]

\* the relevance bonus given only to a candidate with the minimum years
evaluateExperience_bonusWhenPassing(features, reqs) ==
    LET hasMinimumExperience == features.totalExperience >= reqs.minimumYearsOfExperience
    IN [pass |-> hasMinimumExperience,
        score |-> IF hasMinimumExperience
                  THEN ExperienceMinimumPoints
                       + (IF features.hasRelevantExperience THEN ExperienceRelevantPoints ELSE 0)
                  ELSE 0]

evaluateExperience(features, reqs) ==
    LET hasMinimumExperience == features.totalExperience >= reqs.minimumYearsOfExperience
    IN [pass |-> hasMinimumExperience,
        score |-> (IF hasMinimumExperience THEN ExperienceMinimumPoints ELSE 0)
                + (IF features.hasRelevantExperience THEN ExperienceRelevantPoints ELSE 0)]

\* the skills score with the whole category weight given for a required skill
evaluateSkills_fullWeight(features, reqs) ==
    [pass |-> features.hasRequiredSkills,
     score |-> (IF features.hasRequiredSkills THEN SkillsWeight ELSE 0)
             + (IF features.skillMatch.percentage >= SkillMatchThreshold
                THEN SkillsMatchPoints ELSE 0)]

\* the skills category decided against the job's own requiredSkills
evaluateSkills_againstJob(features, reqs) ==
    LET hasAll == \A k \in 1..Len(reqs.requiredSkills) :
                      arrayIncludes(features.candidateSkillNames, toLowerCase(reqs.requiredSkills[k]))
    IN [pass |-> hasAll,
        score |-> (IF hasAll THEN SkillsRequiredPoints ELSE 0)
                + (IF features.skillMatch.percentage >= SkillMatchThreshold
                   THEN SkillsMatchPoints ELSE 0)]

\* the skills score with the vocabulary points given at any percentage
evaluateSkills_matchPointsAlways(features, reqs) ==
    [pass |-> features.hasRequiredSkills,
     score |-> (IF features.hasRequiredSkills THEN SkillsRequiredPoints ELSE 0)
             + SkillsMatchPoints]

evaluateSkills(features, reqs) ==
    [pass |-> features.hasRequiredSkills,
     score |-> (IF features.hasRequiredSkills THEN SkillsRequiredPoints ELSE 0)
             + (IF features.skillMatch.percentage >= SkillMatchThreshold
                THEN SkillsMatchPoints ELSE 0)]

\* the education level compared strictly
evaluateEducation_strict(features, reqs) ==
    LET requiredLevel == levelHierarchy(reqs.requiredEducation.minimumDegree)
        candidateLevel == levelHierarchy(features.educationLevel)
        meetsLevel == candidateLevel > requiredLevel
    IN [pass |-> meetsLevel,
        score |-> (IF meetsLevel THEN EducationLevelPoints ELSE 0)
                + (IF features.hasRelevantEducation THEN EducationRelevantPoints ELSE 0)]

evaluateEducation(features, reqs) ==
    LET requiredLevel == levelHierarchy(reqs.requiredEducation.minimumDegree)
        candidateLevel == levelHierarchy(features.educationLevel)
        meetsLevel == candidateLevel >= requiredLevel
    IN [pass |-> meetsLevel,
        score |-> (IF meetsLevel THEN EducationLevelPoints ELSE 0)
                + (IF features.hasRelevantEducation THEN EducationRelevantPoints ELSE 0)]

\* the certification category decided by the names the job requires
evaluateCertifications_byName(features, reqs) ==
    IF reqs.requiredCertifications = UndefinedArray \/ Len(reqs.requiredCertifications) = 0
    THEN [pass |-> TRUE, score |-> CertificationPoints]
    ELSE LET named == features.hasCertifications
                      /\ arrayIncludes(reqs.requiredCertifications, <<"A","W","S"," ","C","e","r","t","i","f","i","e","d">>)
         IN [pass |-> named, score |-> IF named THEN CertificationPoints ELSE 0]

evaluateCertifications(features, reqs) ==
    IF reqs.requiredCertifications = UndefinedArray \/ Len(reqs.requiredCertifications) = 0
    THEN [pass |-> TRUE, score |-> CertificationPoints]
    ELSE [pass |-> features.hasCertifications,
          score |-> IF features.hasCertifications THEN CertificationPoints ELSE 0]

\* the filter comparing the names as written
missingSkills_caseSensitive(features, reqs) ==
    LET isMissing(skill) == ~arrayIncludes(features.candidateSkillNames, skill)
    IN SelectSeq(reqs.requiredSkills, isMissing)

\* requirements.requiredSkills.filter(skill =>
\*     !features.candidateSkillNames.includes(skill.toLowerCase()))
missingSkills(features, reqs) ==
    LET isMissing(skill) == ~arrayIncludes(features.candidateSkillNames, toLowerCase(skill))
    IN SelectSeq(reqs.requiredSkills, isMissing)

\* the evaluation with the skills entry put before the experience entry
performEvaluation_skillsFirst(features, reqs) ==
    LET experienceScore == evaluateExperience(features, reqs)
        skillsScore == evaluateSkills(features, reqs)
        educationScore == evaluateEducation(features, reqs)
        certScore == evaluateCertifications(features, reqs)
        reasons ==
            (IF experienceScore.pass
             THEN << <<"U+2713"," ">> \o numberToString(features.totalExperience)
                       \o <<" ","y","e","a","r","s"," ","o","f"," ","e","x","p","e","r","i","e","n","c","e">> >>
             ELSE <<>>)
            \o (IF skillsScore.pass THEN << <<"U+2713"," ","H","a","s"," ","r","e","q","u","i","r","e","d"," ","t","e","c","h","n","i","c","a","l"," ","s","k","i","l","l","s">> >> ELSE <<>>)
            \o (IF educationScore.pass THEN << <<"U+2713"," ","M","e","e","t","s"," ","e","d","u","c","a","t","i","o","n"," ","r","e","q","u","i","r","e","m","e","n","t","s">> >> ELSE <<>>)
            \o (IF certScore.pass THEN << <<"U+2713"," ","H","a","s"," ","r","e","l","e","v","a","n","t"," ","c","e","r","t","i","f","i","c","a","t","i","o","n","s">> >> ELSE <<>>)
        missing ==
            (IF skillsScore.pass THEN <<>>
             ELSE << <<"M","i","s","s","i","n","g"," ","r","e","q","u","i","r","e","d"," ","s","k","i","l","l","s",":"," ">> \o join(missingSkills(features, reqs), <<","," ">>) >>)
            \o (IF experienceScore.pass THEN <<>>
                ELSE << <<"R","e","q","u","i","r","e","s"," ">> \o numberToString(reqs.minimumYearsOfExperience)
                          \o <<"+"," ","y","e","a","r","s"," ","e","x","p","e","r","i","e","n","c","e">> >>)
            \o (IF educationScore.pass THEN <<>>
                ELSE << <<"R","e","q","u","i","r","e","s"," ">> \o reqs.requiredEducation.minimumDegree \o <<" ","d","e","g","r","e","e">> >>)
            \o (IF ~certScore.pass /\ reqs.requiredCertifications # UndefinedArray
                   /\ Len(reqs.requiredCertifications) > 0
                THEN << <<"M","i","s","s","i","n","g"," ","r","e","q","u","i","r","e","d"," ","c","e","r","t","i","f","i","c","a","t","i","o","n","s">> >> ELSE <<>>)
        passScore == experienceScore.score + skillsScore.score
                     + educationScore.score + certScore.score
        totalScore == ExperienceWeight + SkillsWeight + EducationWeight + CertificationWeight
        confidence == IF totalScore > 0 THEN (passScore * 100) \div totalScore ELSE 0
    IN [pass |-> confidence >= PassThreshold,
        confidence |-> confidence,
        reasons |-> reasons,
        missing |-> missing,
        errors |-> <<>>]

\* confidenceScore is held in hundredths: the code's passScore / totalScore, where
\* totalScore is the sum of the four weights, 100
performEvaluation(features, reqs) ==
    LET experienceScore == evaluateExperience(features, reqs)
        skillsScore == evaluateSkills(features, reqs)
        educationScore == evaluateEducation(features, reqs)
        certScore == evaluateCertifications(features, reqs)
        reasons ==
            (IF experienceScore.pass
             THEN << <<"U+2713"," ">> \o numberToString(features.totalExperience)
                       \o <<" ","y","e","a","r","s"," ","o","f"," ","e","x","p","e","r","i","e","n","c","e">> >>
             ELSE <<>>)
            \o (IF skillsScore.pass THEN << <<"U+2713"," ","H","a","s"," ","r","e","q","u","i","r","e","d"," ","t","e","c","h","n","i","c","a","l"," ","s","k","i","l","l","s">> >> ELSE <<>>)
            \o (IF educationScore.pass THEN << <<"U+2713"," ","M","e","e","t","s"," ","e","d","u","c","a","t","i","o","n"," ","r","e","q","u","i","r","e","m","e","n","t","s">> >> ELSE <<>>)
            \o (IF certScore.pass THEN << <<"U+2713"," ","H","a","s"," ","r","e","l","e","v","a","n","t"," ","c","e","r","t","i","f","i","c","a","t","i","o","n","s">> >> ELSE <<>>)
        missing ==
            (IF experienceScore.pass THEN <<>>
             ELSE << <<"R","e","q","u","i","r","e","s"," ">> \o numberToString(reqs.minimumYearsOfExperience)
                       \o <<"+"," ","y","e","a","r","s"," ","e","x","p","e","r","i","e","n","c","e">> >>)
            \o (IF skillsScore.pass THEN <<>>
                ELSE << <<"M","i","s","s","i","n","g"," ","r","e","q","u","i","r","e","d"," ","s","k","i","l","l","s",":"," ">> \o join(missingSkills(features, reqs), <<","," ">>) >>)
            \o (IF educationScore.pass THEN <<>>
                ELSE << <<"R","e","q","u","i","r","e","s"," ">> \o reqs.requiredEducation.minimumDegree \o <<" ","d","e","g","r","e","e">> >>)
            \o (IF ~certScore.pass /\ reqs.requiredCertifications # UndefinedArray
                   /\ Len(reqs.requiredCertifications) > 0
                THEN << <<"M","i","s","s","i","n","g"," ","r","e","q","u","i","r","e","d"," ","c","e","r","t","i","f","i","c","a","t","i","o","n","s">> >> ELSE <<>>)
        passScore == experienceScore.score + skillsScore.score
                     + educationScore.score + certScore.score
        totalScore == ExperienceWeight + SkillsWeight + EducationWeight + CertificationWeight
        confidence == IF totalScore > 0 THEN (passScore * 100) \div totalScore ELSE 0
    IN [pass |-> confidence >= PassThreshold,
        confidence |-> confidence,
        reasons |-> reasons,
        missing |-> missing,
        errors |-> <<>>]

\* a decision that also fails every candidate with a missing requirement
evaluateAgainstCriteria_everyCategoryGates(candidateData, jobRequirements) ==
    LET features == extractEvaluationFeatures(candidateData)
        evaluation == performEvaluation(features, jobRequirements)
    IN [candidateProfile |-> candidateData,
        screeningResult |-> IF evaluation.pass /\ evaluation.missing = <<>>
                            THEN "pass" ELSE "fail",
        matchReasons |-> evaluation.reasons,
        confidenceScore |-> evaluation.confidence,
        missingRequirements |-> evaluation.missing,
        errorMessages |-> evaluation.errors]

evaluateAgainstCriteria(candidateData, jobRequirements) ==
    LET features == extractEvaluationFeatures(candidateData)
        evaluation == performEvaluation(features, jobRequirements)
    IN [candidateProfile |-> candidateData,
        screeningResult |-> IF evaluation.pass THEN "pass" ELSE "fail",
        matchReasons |-> evaluation.reasons,
        confidenceScore |-> evaluation.confidence,
        missingRequirements |-> evaluation.missing,
        errorMessages |-> evaluation.errors]

---------------------------------------------------------------------------
(* FeatureExtractor                                                        *)

extractorRequiredSkills ==
    << <<"J","a","v","a","S","c","r","i","p","t">>, <<"P","y","t","h","o","n">>, <<"J","a","v","a">>, <<"R","e","a","c","t">>, <<"N","o","d","e",".","j","s">>, <<"S","Q","L">>,
       <<"G","i","t">>, <<"H","T","M","L">>, <<"C","S","S">>, <<"T","y","p","e","S","c","r","i","p","t">>, <<"A","W","S">>, <<"D","o","c","k","e","r">> >>

extractorPreferredSkills ==
    << <<"K","u","b","e","r","n","e","t","e","s">>, <<"M","o","n","g","o","D","B">>, <<"R","e","d","i","s">>, <<"G","r","a","p","h","Q","L">>, <<"T","y","p","e","S","c","r","i","p","t">>,
       <<"D","o","c","k","e","r">>, <<"A","W","S">>, <<"A","z","u","r","e">>, <<"G","C","P">>, <<"C","I","/","C","D">>, <<"M","i","c","r","o","s","e","r","v","i","c","e","s">> >>

extractorRequiredCerts ==
    << <<"A","W","S"," ","C","e","r","t","i","f","i","e","d">>, <<"M","i","c","r","o","s","o","f","t"," ","C","e","r","t","i","f","i","e","d">>, <<"G","o","o","g","l","e"," ","C","e","r","t","i","f","i","e","d">>,
       <<"C","I","S","S","P">>, <<"P","M","P">>, <<"S","c","r","u","m"," ","M","a","s","t","e","r">> >>

extractorAllSkills ==
    << <<"J","a","v","a","S","c","r","i","p","t">>, <<"P","y","t","h","o","n">>, <<"J","a","v","a">>, <<"C","+","+">>, <<"R","e","a","c","t">>, <<"A","n","g","u","l","a","r">>, <<"V","u","e">>,
       <<"N","o","d","e",".","j","s">>, <<"S","Q","L">>, <<"M","o","n","g","o","D","B">>, <<"A","W","S">>, <<"A","z","u","r","e">>, <<"D","o","c","k","e","r">>, <<"K","u","b","e","r","n","e","t","e","s">>,
       <<"G","i","t">>, <<"L","i","n","u","x">>, <<"H","T","M","L">>, <<"C","S","S">>, <<"T","y","p","e","S","c","r","i","p","t">>, <<"P","H","P">>, <<"R","u","b","y">>, <<"G","o">>,
       <<"R","u","s","t">>, <<"S","w","i","f","t">>, <<"K","o","t","l","i","n">>, <<"K","u","b","e","r","n","e","t","e","s">>, <<"R","e","d","i","s">>, <<"G","r","a","p","h","Q","L">>, <<"C","I","/","C","D">>,
       <<"M","i","c","r","o","s","e","r","v","i","c","e","s">>, <<"R","E","S","T">>, <<"G","r","a","p","h","Q","L">> >>

checkRequiredSkills(skills) ==
    LET names == candidateSkillNames(skills)
    IN \E k \in 1..Len(extractorRequiredSkills) :
           arrayIncludes(names, toLowerCase(extractorRequiredSkills[k]))

checkPreferredSkills(skills) ==
    LET names == candidateSkillNames(skills)
    IN \E k \in 1..Len(extractorPreferredSkills) :
           arrayIncludes(names, toLowerCase(extractorPreferredSkills[k]))

\* FeatureExtractor.calculateTotalExperience
extractorTotalExperience(workExperience) ==
    mathRoundDiv(sum([i \in 1..Len(workExperience) |-> workExperience[i].duration]), 12)

\* the total, in years, is compared with the months of three years
checkExperienceRequirement(workExperience) ==
    extractorTotalExperience(workExperience) >= 3 * 12

\* FeatureExtractor.determineEducationLevel: the loop of the evaluator's method
extractorEducationLevel(education) ==
    IF Len(education) = 0 THEN <<"h","i","g","h","_","s","c","h","o","o","l">>
    ELSE highestLevelAfter(education, Len(education))

checkEducationRequirement(education) ==
    levelHierarchy(extractorEducationLevel(education)) >= levelHierarchy(<<"b","a","c","h","e","l","o","r">>)

checkCertificationRequirement(certifications) ==
    IF Len(certifications) = 0 THEN TRUE
    ELSE \E k \in 1..Len(extractorRequiredCerts) :
             \E i \in 1..Len(certifications) :
                 includes(toLowerCase(certifications[i].name),
                          toLowerCase(extractorRequiredCerts[k]))

calculateSkillMatch(skills) ==
    LET names == candidateSkillNames(skills)
        isMatched(skill) == arrayIncludes(names, toLowerCase(skill))
        matchedSkills == SelectSeq(extractorAllSkills, isMatched)
    IN mathRoundDiv(Len(matchedSkills) * 100, Len(extractorAllSkills))

\* the TypeError of the first toLowerCase() that extractFeatures calls on a
\* name or a degree that is no string, or NoError
extractFeaturesError(parsedResume) ==
    LET skills == parsedResume.skills
        education == parsedResume.education
        certifications == parsedResume.certifications
        badSkills == {i \in 1..Len(skills) : ~isString(skills[i].name)}
        badDegrees == {i \in 1..Len(education) : ~isString(education[i].degree)}
        badCertifications ==
            {i \in 1..Len(certifications) : ~isString(certifications[i].name)}
    IN IF badSkills # {}
       THEN callError(skills[least(badSkills)].name, <<"s","k","i","l","l",".","n","a","m","e">>, <<"t","o","L","o","w","e","r","C","a","s","e">>)
       ELSE IF badDegrees # {}
       THEN callError(education[least(badDegrees)].degree, <<"e","d","u",".","d","e","g","r","e","e">>, <<"t","o","L","o","w","e","r","C","a","s","e">>)
       ELSE IF badCertifications # {}
       THEN callError(certifications[least(badCertifications)].name, <<"c","e","r","t",".","n","a","m","e">>,
                      <<"t","o","L","o","w","e","r","C","a","s","e">>)
       ELSE NoError

extractFeatures(parsedResume) ==
    IF extractFeaturesError(parsedResume) # NoError
    THEN Thrown(extractFeaturesError(parsedResume))
    ELSE Returned(
        [hasRequiredSkills |-> checkRequiredSkills(parsedResume.skills),
         hasPreferredSkills |-> checkPreferredSkills(parsedResume.skills),
         meetsExperienceRequirement |-> checkExperienceRequirement(parsedResume.workExperience),
         meetsEducationRequirement |-> checkEducationRequirement(parsedResume.education),
         hasRequiredCertifications |->
             checkCertificationRequirement(parsedResume.certifications),
         totalYearsExperience |-> extractorTotalExperience(parsedResume.workExperience),
         skillMatchPercentage |-> calculateSkillMatch(parsedResume.skills),
         educationLevel |-> extractorEducationLevel(parsedResume.education)])

---------------------------------------------------------------------------
(* R1Agent                                                                 *)

\* the TypeError evaluateAgainstCriteria throws when it calls toLowerCase() on
\* a title that is no string or reads a property of a part of the job that is
\* missing, or NoError
evaluationError(candidateData, jobRequirements) ==
    LET workExperience == candidateData.workExperience
        badTitles == {i \in 1..Len(workExperience) : ~isString(workExperience[i].title)}
        \* some() has stopped before entry i when an earlier entry is relevant
        reached(i) == \A j \in 1..(i - 1) : ~hasRelevantExperience(<<workExperience[j]>>)
        features == extractEvaluationFeatures(candidateData)
    IN IF badTitles # {} /\ reached(least(badTitles))
       THEN callError(workExperience[least(badTitles)].title, <<"e","x","p",".","t","i","t","l","e">>, <<"t","o","L","o","w","e","r","C","a","s","e">>)
       ELSE IF nullish(jobRequirements)
       THEN cannotRead(nullishName(jobRequirements), <<"m","i","n","i","m","u","m","Y","e","a","r","s","O","f","E","x","p","e","r","i","e","n","c","e">>)
       ELSE IF /\ "requiredSkills" \notin DOMAIN jobRequirements.value
               /\ ~evaluateSkills(features, jobRequirements.value).pass
       THEN cannotRead(<<"u","n","d","e","f","i","n","e","d">>, <<"f","i","l","t","e","r">>)
       ELSE IF "requiredEducation" \notin DOMAIN jobRequirements.value
       THEN cannotRead(<<"u","n","d","e","f","i","n","e","d">>, <<"m","i","n","i","m","u","m","D","e","g","r","e","e">>)
       ELSE NoError

\* the entry logError pushes
ProcessingError(type, message) == [type |-> type, message |-> message, timestamp |-> now]

logError(log, type, message) == Append(log, ProcessingError(type, message))

\* the outcome of a stage of the agent: what the stage returns or the message
\* of the Error it throws, the message of the error it caught, and the log
Stage(outcome, prefix, type, log) ==
    IF outcome.threw
    THEN [threw |-> TRUE, message |-> prefix \o outcome.message, value |-> <<>>,
          cause |-> outcome.message, errors |-> logError(log, type, prefix \o outcome.message)]
    ELSE [threw |-> FALSE, message |-> <<>>, value |-> outcome.value,
          cause |-> NoError, errors |-> log]

\* R1Agent.parseResume
agentParseResume(resumeInput, log) ==
    Stage(IF nullish(resumeInput)
          THEN Thrown(cannotRead(nullishName(resumeInput), <<"t","y","p","e">>))
          ELSE parseResume(get(resumeInput, "content")),
          <<"F","a","i","l","e","d"," ","t","o"," ","p","a","r","s","e"," ","r","e","s","u","m","e",":"," ">>, "parsing", log)

\* R1Agent.extractFeatures
agentExtractFeatures(parsedResume, log) ==
    Stage(extractFeatures(parsedResume), <<"F","a","i","l","e","d"," ","t","o"," ","e","x","t","r","a","c","t"," ","f","e","a","t","u","r","e","s",":"," ">>, "extraction", log)

\* R1Agent.evaluateAgainstCriteria
agentEvaluateAgainstCriteria(parsedResume, jobRequirements, log) ==
    LET outcome(error) ==
            IF error # NoError THEN Thrown(error)
            ELSE Returned(evaluateAgainstCriteria(parsedResume, jobRequirements.value))
    IN Stage(outcome(evaluationError(parsedResume, jobRequirements)),
             <<"F","a","i","l","e","d"," ","t","o"," ","e","v","a","l","u","a","t","e"," ","c","a","n","d","i","d","a","t","e",":"," ">>, "evaluation", log)

defaultProfile ==
    [fullName |-> <<"U","n","k","n","o","w","n">>, email |-> <<>>, phone |-> <<>>, education |-> <<>>,
     workExperience |-> <<>>, skills |-> <<>>, certifications |-> <<>>]

\* a sentinel that reports the failure without its message
createErrorResult_withoutMessage(errorMessage) ==
    [candidateProfile |-> defaultProfile,
     screeningResult |-> "fail",
     matchReasons |-> << <<"P","r","o","c","e","s","s","i","n","g"," ","e","r","r","o","r"," ","o","c","c","u","r","r","e","d">> >>,
     confidenceScore |-> 0,
     missingRequirements |-> <<>>,
     errorMessages |-> << <<"P","r","o","c","e","s","s","i","n","g"," ","e","r","r","o","r"," ","o","c","c","u","r","r","e","d">> >>]

createErrorResult(errorMessage) ==
    [candidateProfile |-> defaultProfile,
     screeningResult |-> "fail",
     matchReasons |-> << <<"P","r","o","c","e","s","s","i","n","g"," ","e","r","r","o","r"," ","o","c","c","u","r","r","e","d">> >>,
     confidenceScore |-> 0,
     missingRequirements |-> <<>>,
     errorMessages |-> <<errorMessage>>]

---------------------------------------------------------------------------
(* Inputs: the finite pools the behaviours draw from                       *)

\* most work-experience entries of a candidate profile
MaxJobs == 2

\* the years the clock takes: InitialYear .. InitialYear + MaxTicks
InitialYear == 2024
MaxTicks == 1

SoftwareEngineerJob ==
    [title |-> <<"S","o","f","t","w","a","r","e"," ","E","n","g","i","n","e","e","r">>, company |-> <<"T","e","c","h"," ","C","o","r","p">>, startDate |-> <<"2","0","2","0">>,
     endDate |-> <<"2","0","2","1">>, duration |-> 18, description |-> <<>>, technologies |-> Arr(<<>>)]

DesignerJob ==
    [title |-> <<"U","I"," ","D","e","s","i","g","n","e","r">>, company |-> <<"D","e","s","i","g","n"," ","C","o","r","p">>, startDate |-> <<"2","0","2","3">>,
     endDate |-> Undefined, duration |-> 6, description |-> Undefined,
     technologies |-> Arr(<<>>)]

AnalystJob ==
    [title |-> <<"A","n","a","l","y","s","t">>, company |-> <<"U","n","k","n","o","w","n">>, startDate |-> <<"2","0","2","2">>,
     endDate |-> <<"2","0","2","3">>, duration |-> 12, description |-> <<"B","u","i","l","t"," ","W","e","b"," ","t","o","o","l","s">>,
     technologies |-> Arr(<<>>)]

JobPool == {SoftwareEngineerJob, DesignerJob}

RECURSIVE SeqsUpTo(_, _)
SeqsUpTo(S, n) ==
    IF n = 0 THEN {<<>>}
    ELSE LET shorter == SeqsUpTo(S, n - 1)
         IN shorter \cup {Append(q, x) : q \in shorter, x \in S}

WorkHistories == SeqsUpTo(JobPool, MaxJobs) \cup {<<AnalystJob>>}

Skill(name) == [name |-> name, category |-> <<"t","e","c","h","n","i","c","a","l">>, proficiency |-> <<"i","n","t","e","r","m","e","d","i","a","t","e">>]

\* the entries of the master vocabulary that are not in the fixed required list
otherVocabulary == SelectSeq(allSkills, LAMBDA s : ~arrayIncludes(requiredSkills, s))

SkillLists ==
    { <<>>,
      << Skill(<<"j","a","v","a","s","c","r","i","p","t">>), Skill(<<"P","H","O","T","O","S","H","O","P">>) >>,
      << Skill(<<"P","h","o","t","o","S","h","o","p">>), Skill(<<"I","l","l","u","s","t","r","a","t","o","r">>) >>,
      [i \in 1..Len(otherVocabulary) |-> Skill(otherVocabulary[i])],
      [i \in 1..(Len(otherVocabulary) - 1) |-> Skill(otherVocabulary[i])],
      [i \in 1..(Len(otherVocabulary) - 1) |-> Skill(otherVocabulary[i])]
          \o << Skill(<<"R","E","A","C","T">>), Skill(<<"F","i","g","m","a">>) >> }

BachelorCS ==
    [degree |-> <<"B","a","c","h","e","l","o","r"," ","o","f"," ","S","c","i","e","n","c","e"," ","i","n"," ","C","o","m","p","u","t","e","r"," ","S","c","i","e","n","c","e">>, institution |-> <<"T","e","c","h"," ","U","n","i","v","e","r","s","i","t","y">>,
     graduationYear |-> Num(2020), field |-> <<"C","o","m","p","u","t","e","r"," ","S","c","i","e","n","c","e">>]

MasterSE ==
    [degree |-> <<"M","a","s","t","e","r"," ","o","f"," ","S","c","i","e","n","c","e">>, institution |-> <<"U","n","k","n","o","w","n">>,
     graduationYear |-> Undef, field |-> Undefined]

DiplomaPhysics ==
    [degree |-> <<"D","i","p","l","o","m","a">>, institution |-> <<"U","n","k","n","o","w","n">>,
     graduationYear |-> Undef, field |-> <<"A","p","p","l","i","e","d"," ","P","h","y","s","i","c","s">>]

EducationLists ==
    { <<>>, <<BachelorCS>>, <<MasterSE>>, <<DiplomaPhysics>>,
      <<MasterSE, BachelorCS>> }

AwsCertification ==
    [name |-> <<"A","W","S"," ","C","e","r","t","i","f","i","e","d"," ","D","e","v","e","l","o","p","e","r">>, issuingOrganization |-> <<"U","n","k","n","o","w","n">>,
     issueDate |-> Undef, expiryDate |-> Undef, credentialId |-> Undef]

CertificationLists == { <<>>, <<AwsCertification>> }

Profiles ==
    { [fullName |-> <<"J","a","n","e"," ","S","m","i","t","h">>, email |-> <<"j","@","x",".","i","o">>, phone |-> <<"5","5","5","1","2","3","4","5","6","7">>,
       education |-> e, workExperience |-> w, skills |-> s, certifications |-> c,
       rawText |-> Undefined] :
      e \in EducationLists, w \in WorkHistories, s \in SkillLists, c \in CertificationLists }

\* the parts of a job that carry no weight in the evaluation, with the form
\* its requiredCertifications take when no certification is required
JobTexts ==
    { [requiredSkills |-> << <<"J","a","v","a","S","c","r","i","p","t">>, <<"R","e","a","c","t">>, <<"N","o","d","e",".","j","s">> >>,
       preferredSkills |-> << <<"T","y","p","e","S","c","r","i","p","t">> >>,
       preferredFields |-> << <<"C","o","m","p","u","t","e","r"," ","S","c","i","e","n","c","e">> >>,
       certificationNames |-> << <<"A","W","S"," ","C","e","r","t","i","f","i","e","d">> >>,
       noCertifications |-> <<>>,
       softSkills |-> << <<"C","o","m","m","u","n","i","c","a","t","i","o","n">> >>],
      [requiredSkills |-> << <<"P","h","o","t","o","s","h","o","p">>, <<"J","a","v","a","S","c","r","i","p","t">> >>,
       preferredSkills |-> <<>>,
       preferredFields |-> UndefinedArray,
       certificationNames |-> << <<"P","M","P">>, <<"C","I","S","S","P">> >>,
       noCertifications |-> UndefinedArray,
       softSkills |-> UndefinedArray],
      [requiredSkills |-> << <<"I","l","l","u","s","t","r","a","t","o","r">> >>,
       preferredSkills |-> <<>>,
       preferredFields |-> <<>>,
       certificationNames |-> << <<"P","M","P">> >>,
       noCertifications |-> <<>>,
       softSkills |-> <<>>] }

MinimumYears == {1, 3}
MinimumDegrees == { <<"b","a","c","h","e","l","o","r">>, <<"m","a","s","t","e","r">> }

JobRequirementsSet ==
    { [minimumYearsOfExperience |-> y,
       requiredSkills |-> t.requiredSkills,
       preferredSkills |-> t.preferredSkills,
       requiredEducation |-> [minimumDegree |-> d, preferredFields |-> t.preferredFields],
       requiredCertifications |-> IF c THEN t.certificationNames ELSE t.noCertifications,
       softSkills |-> t.softSkills] :
      y \in MinimumYears, d \in MinimumDegrees, t \in JobTexts, c \in BOOLEAN }

\* no call has returned yet
NoResult ==
    [candidateProfile |-> defaultProfile, screeningResult |-> "none", matchReasons |-> <<>>,
     confidenceScore |-> 0, missingRequirements |-> <<>>, errorMessages |-> <<>>]

NoRequirements ==
    [minimumYearsOfExperience |-> 0, requiredSkills |-> <<>>, preferredSkills |-> <<>>,
     requiredEducation |-> [minimumDegree |-> <<>>, preferredFields |-> <<>>],
     requiredCertifications |-> <<>>, softSkills |-> <<>>]

\* no earlier call is remembered
NoCall == [requirements |-> NoRequirements, result |-> NoResult, year |-> 0]

NoInput == [type |-> "none", content |-> <<>>]

\* no stage has run yet
NoOutcome ==
    [threw |-> FALSE, message |-> <<>>, value |-> <<>>, cause |-> NoError, errors |-> <<>>]

\* no stage has thrown
NoThrow == [stage |-> "none", message |-> <<>>]

---------------------------------------------------------------------------
(* SpecEval: one call of ResumeEvaluator.evaluateAgainstCriteria           *)

InitEval ==
    /\ profile \in Profiles
    /\ requirements \in JobRequirementsSet
    /\ result = NoResult
    /\ calledAt = 0
    /\ earlier = NoCall
    /\ now = InitialYear
    /\ input = NoInput
    /\ errors = <<>>
    /\ pending = NoOutcome
    /\ thrown = NoThrow
    /\ pc = "ready"

EvaluateAgainstCriteria ==
    /\ pc = "ready"
    /\ result' = evaluateAgainstCriteria(profile, requirements)
    /\ pc' = "done"
    /\ UNCHANGED <<profile, requirements, calledAt, earlier, now, input, errors, pending,
                   thrown>>

NextEval == EvaluateAgainstCriteria

SpecEval == InitEval /\ [][NextEval]_vars

TypeOKEval == result.screeningResult \in {"none", "pass", "fail"}

---------------------------------------------------------------------------
(* SpecRepeat: repeated calls of evaluateAgainstCriteria on one evaluator, *)
(* for one profile and a job that the caller may change between calls,     *)
(* while the clock advances                                                *)

RepeatProfiles ==
    { p \in Profiles :
        /\ Len(p.workExperience) <= 1
        /\ Len(p.skills) <= 2
        /\ Len(p.education) = 1
        /\ p.certifications = <<>> }

RepeatRequirements ==
    { r \in JobRequirementsSet :
        /\ r.requiredEducation.minimumDegree = <<"b","a","c","h","e","l","o","r">>
        /\ r.requiredCertifications \in {UndefinedArray, <<>>} }

InitRepeat ==
    /\ profile \in RepeatProfiles
    /\ requirements \in RepeatRequirements
    /\ result = NoResult
    /\ calledAt = 0
    /\ earlier = NoCall
    /\ now = InitialYear
    /\ input = NoInput
    /\ errors = <<>>
    /\ pending = NoOutcome
    /\ thrown = NoThrow
    /\ pc = "ready"

RepeatEvaluate ==
    /\ pc = "ready"
    /\ result' = evaluateAgainstCriteria(profile, requirements)
    /\ calledAt' = now
    /\ pc' = "done"
    /\ UNCHANGED <<profile, requirements, earlier, now, input, errors, pending, thrown>>

\* the caller turns to a job, the same or another, and may keep the last
\* result to compare a later one with
NextJob ==
    /\ pc = "done"
    /\ requirements' \in RepeatRequirements
    /\ earlier' \in {earlier, [requirements |-> requirements, result |-> result, year |-> calledAt]}
    /\ pc' = "ready"
    /\ UNCHANGED <<profile, result, calledAt, now, input, errors, pending, thrown>>

\* a year passes
Tick ==
    /\ now < InitialYear + MaxTicks
    /\ now' = now + 1
    /\ UNCHANGED <<profile, requirements, result, calledAt, earlier, input, errors, pending,
                   thrown, pc>>

NextRepeat == RepeatEvaluate \/ NextJob \/ Tick

SpecRepeat == InitRepeat /\ [][NextRepeat]_vars

---------------------------------------------------------------------------
(* Resume inputs                                                           *)

\* the lines of a text written one under the other, each after the indent
resumeText(lines, indent, lineBreak) ==
    join([k \in 1..Len(lines) |-> indent \o lines[k]] \o <<>>, lineBreak)

\* the resume of the parser's and of the end-to-end test
TestResumeLines ==
    << <<>>,
       <<"J","o","h","n"," ","D","o","e">>,
       <<"j","o","h","n",".","d","o","e","@","e","m","a","i","l",".","c","o","m">>,
       <<"(","5","5","5",")"," ","1","2","3","-","4","5","6","7">>,
       <<>>,
       <<"E","D","U","C","A","T","I","O","N">>,
       <<"B","a","c","h","e","l","o","r"," ","o","f"," ","S","c","i","e","n","c","e"," ","i","n"," ","C","o","m","p","u","t","e","r"," ","S","c","i","e","n","c","e">>,
       <<"U","n","i","v","e","r","s","i","t","y"," ","o","f"," ","T","e","c","h","n","o","l","o","g","y",","," ","2","0","2","0">>,
       <<>>,
       <<"E","X","P","E","R","I","E","N","C","E">>,
       <<"S","e","n","i","o","r"," ","S","o","f","t","w","a","r","e"," ","E","n","g","i","n","e","e","r">>,
       <<"T","e","c","h"," ","C","o","r","p"," ","I","n","c",","," ","2","0","2","1","-","2","0","2","3">>,
       <<>>,
       <<"S","K","I","L","L","S">>,
       <<"J","a","v","a","S","c","r","i","p","t",","," ","R","e","a","c","t",","," ","N","o","d","e",".","j","s",","," ","S","Q","L">>,
       <<>> >>

TestResume == resumeText(TestResumeLines, <<" "," "," "," "," "," "," "," ">>, <<"\n">>)

HeaderLines ==
    { << <<"J","o","h","n"," ","D","o","e">>, <<"j","o","h","n",".","d","o","e","@","e","m","a","i","l",".","c","o","m">>, <<"(","5","5","5",")"," ","1","2","3","-","4","5","6","7">> >>,
      << <<"N","a","m","e",":"," ","J","a","n","e"," ","S","m","i","t","h">>, <<"+","1"," ","5","5","5",".","9","8","7",".","6","5","4","3">> >>,
      <<>> }

EducationLines ==
    { <<>>,
      << <<"E","D","U","C","A","T","I","O","N">>, <<"B","a","c","h","e","l","o","r"," ","o","f"," ","S","c","i","e","n","c","e"," ","i","n"," ","C","o","m","p","u","t","e","r"," ","S","c","i","e","n","c","e">>,
         <<"U","n","i","v","e","r","s","i","t","y"," ","o","f"," ","T","e","c","h","n","o","l","o","g","y",","," ","2","0","2","0">> >>,
      << <<"E","d","u","c","a","t","i","o","n",":">>, <<"M","a","s","t","e","r"," ","D","e","g","r","e","e">> >> }

ExperienceLines ==
    { <<>>,
      << <<"E","X","P","E","R","I","E","N","C","E">>, <<"S","e","n","i","o","r"," ","S","o","f","t","w","a","r","e"," ","E","n","g","i","n","e","e","r">>, <<"T","e","c","h"," ","C","o","r","p"," ","I","n","c",","," ","2","0","2","1","-","2","0","2","3">> >> }

SkillsLines ==
    { <<>>,
      << <<"S","K","I","L","L","S">>, <<"J","a","v","a","S","c","r","i","p","t",","," ","R","e","a","c","t",","," ","N","o","d","e",".","j","s",","," ","S","Q","L">> >>,
      << <<"S","K","I","L","L","S">>, <<"P","h","o","t","o","s","h","o","p">> >> }

Indents == { <<>>, <<" ", "\t">> }

LineBreaks == { <<"\n">>, <<"\n", "\n">> }

RawTexts ==
    { resumeText(h \o e \o x \o s, i, b) :
        h \in HeaderLines, e \in EducationLines, x \in ExperienceLines, s \in SkillsLines,
        i \in Indents, b \in LineBreaks }
    \cup {TestResume}

JaneSmith ==
    [name |-> Str(<<"J","a","n","e"," ","S","m","i","t","h">>),
     email |-> Str(<<"j","a","n","e",".","s","m","i","t","h","@","e","m","a","i","l",".","c","o","m">>),
     phone |-> Str(<<"(","5","5","5",")"," ","9","8","7","-","6","5","4","3">>),
     education |-> Arr(<< Obj([degree |-> Str(<<"M","a","s","t","e","r"," ","o","f"," ","S","c","i","e","n","c","e"," ","i","n"," ","S","o","f","t","w","a","r","e"," ","E","n","g","i","n","e","e","r","i","n","g">>),
                              institution |-> Str(<<"T","e","c","h"," ","U","n","i","v","e","r","s","i","t","y">>),
                              graduationYear |-> Num(2021),
                              field |-> Str(<<"S","o","f","t","w","a","r","e"," ","E","n","g","i","n","e","e","r","i","n","g">>)]) >>),
     experience |-> Arr(<< Obj([title |-> Str(<<"F","u","l","l"," ","S","t","a","c","k"," ","D","e","v","e","l","o","p","e","r">>),
                               company |-> Str(<<"T","e","c","h"," ","S","o","l","u","t","i","o","n","s">>),
                               startDate |-> Str(<<"2","0","2","1">>),
                               endDate |-> Str(<<"2","0","2","3">>),
                               duration |-> Num(24),
                               description |-> Str(<<"D","e","v","e","l","o","p","e","d"," ","f","u","l","l","-","s","t","a","c","k"," ","a","p","p","l","i","c","a","t","i","o","n","s">>),
                               technologies |-> Arr(<< Str(<<"R","e","a","c","t">>) >>)]) >>),
     skills |-> Arr(<< Str(<<"J","a","v","a","S","c","r","i","p","t">>), Str(<<"R","e","a","c","t">>), Str(<<"N","o","d","e",".","j","s">>),
                       Str(<<"M","o","n","g","o","D","B">>), Str(<<"T","y","p","e","S","c","r","i","p","t">>) >>),
     certifications |-> Arr(<< Obj([name |-> Str(<<"A","W","S"," ","C","e","r","t","i","f","i","e","d"," ","D","e","v","e","l","o","p","e","r">>),
                                   issuingOrganization |-> Str(<<"A","m","a","z","o","n"," ","W","e","b"," ","S","e","r","v","i","c","e","s">>),
                                   issueDate |-> Str(<<"2","0","2","2">>)]) >>)]

\* a resume under the alternate property names, with an open-ended job
SamLee ==
    [fullName |-> Str(<<"S","a","m"," ","L","e","e">>),
     phoneNumber |-> Num(5550199),
     education |-> Arr(<< Obj([name |-> Str(<<"B","S","c">>), school |-> Str(<<"C","i","t","y"," ","C","o","l","l","e","g","e">>),
                              year |-> Num(2018), major |-> Str(<<"P","h","y","s","i","c","s">>)]) >>),
     workExperience |-> Arr(<< Obj([jobTitle |-> Str(<<"W","e","b"," ","D","e","v","e","l","o","p","e","r">>),
                                   employer |-> Str(<<"S","h","o","p"," ","L","t","d">>),
                                   startDate |-> Str(<<"2","0","1","9">>)]),
                               Obj([position |-> Str(<<"I","n","t","e","r","n">>),
                                   start |-> Str(<<"2","0","1","8">>), end |-> Str(<<"2","0","1","9">>)]) >>),
     skills |-> Arr(<< Obj([skill |-> Str(<<"P","y","t","h","o","n">>), years |-> Num(3)]),
                       Obj([name |-> Str(<<"S","Q","L">>), category |-> Str(<<"d","a","t","a">>)]) >>)]

\* a resume that holds an empty name before the full name, and a placement
\* with its dates and an explicit duration of no months
AlexKim ==
    [name |-> Str(<<>>),
     fullName |-> Str(<<"A","l","e","x"," ","K","i","m">>),
     email |-> Str(<<"a","l","e","x",".","k","i","m","@","e","m","a","i","l",".","c","o","m">>),
     experience |-> Arr(<< Obj([title |-> Str(<<"V","o","l","u","n","t","e","e","r">>),
                               company |-> Str(<<"F","o","o","d"," ","B","a","n","k">>),
                               startDate |-> Str(<<"2","0","2","0">>),
                               endDate |-> Str(<<"2","0","2","3">>),
                               duration |-> Num(0)]) >>),
     skills |-> Arr(<< Str(<<"E","x","c","e","l">>) >>)]

StructuredResumes ==
    { Obj(JaneSmith),
      Obj(SamLee),
      Obj(AlexKim),
      Obj(<<>>),
      \* a skill whose name is a number
      Obj([JaneSmith EXCEPT !.skills = Arr(<< Obj([name |-> Num(7)]) >>)]),
      \* a job whose title is a number
      Obj([JaneSmith EXCEPT !.experience =
               Arr(<< Obj([title |-> Num(3), duration |-> Num(12)]) >>)]),
      \* skills given as one text
      Obj([JaneSmith EXCEPT !.skills = Str(<<"J","a","v","a","S","c","r","i","p","t",","," ","R","e","a","c","t">>)]),
      \* a list with a null entry
      Obj([JaneSmith EXCEPT !.education = Arr(<< NullValue >>)]) }

\* what parseResume may be given
ParseInputs ==
    {Str(t) : t \in RawTexts} \cup StructuredResumes \cup {Num(42), NullValue, Undef}

ResumeInputs ==
    {Obj([type |-> Str(<<"r","a","w">>), content |-> Str(t)]) :
        t \in {TestResume, <<>>, <<"N","a","m","e",":"," ","J","a","n","e"," ","S","m","i","t","h">>}}
    \cup {Obj([type |-> Str(<<"s","t","r","u","c","t","u","r","e","d">>), content |-> c]) : c \in StructuredResumes}
    \cup {Obj([type |-> Str(<<"r","a","w">>), content |-> Num(42)]),
          Obj([type |-> Str(<<"s","t","r","u","c","t","u","r","e","d">>)]),
          NullValue}

\* a job without its education part
JobWithoutEducation ==
    [minimumYearsOfExperience |-> 2,
     requiredSkills |-> << <<"J","a","v","a","S","c","r","i","p","t">> >>,
     preferredSkills |-> << <<"R","e","a","c","t">> >>,
     requiredCertifications |-> <<>>,
     softSkills |-> << <<"C","o","m","m","u","n","i","c","a","t","i","o","n">> >>]

\* jobs that ask for no degree above high school, or for no experience
EntryLevelJobs ==
    { [minimumYearsOfExperience |-> e.years,
       requiredSkills |-> << <<"J","a","v","a","S","c","r","i","p","t">> >>,
       preferredSkills |-> << <<"R","e","a","c","t">> >>,
       requiredEducation |-> [minimumDegree |-> e.degree,
                              preferredFields |-> << <<"C","o","m","p","u","t","e","r"," ","S","c","i","e","n","c","e">> >>],
       requiredCertifications |-> e.certifications,
       softSkills |-> << <<"C","o","m","m","u","n","i","c","a","t","i","o","n">> >>] :
      e \in { [years |-> 1, degree |-> <<"h","i","g","h","_","s","c","h","o","o","l">>, certifications |-> <<>>],
              [years |-> 0, degree |-> <<"b","a","c","h","e","l","o","r">>, certifications |-> << <<"P","M","P">> >>] } }

JobInputs ==
    {Obj(r) : r \in {q \in JobRequirementsSet :
                        /\ q.minimumYearsOfExperience = 1
                        /\ q.requiredEducation.minimumDegree = <<"b","a","c","h","e","l","o","r">>}}
    \cup {Obj(r) : r \in EntryLevelJobs}
    \cup {Obj(JobWithoutEducation), Undef}

AgentInputs == {[resumeInput |-> r, jobRequirements |-> j] : r \in ResumeInputs, j \in JobInputs}

---------------------------------------------------------------------------
(* SpecParse: one call of parseResume                                      *)

InitParse ==
    /\ profile = defaultProfile
    /\ requirements = NoRequirements
    /\ result = NoResult
    /\ calledAt = 0
    /\ earlier = NoCall
    /\ now = InitialYear
    /\ input \in ParseInputs
    /\ errors = <<>>
    /\ pending = NoOutcome
    /\ thrown = NoThrow
    /\ pc = "unparsed"

ParseResume ==
    /\ pc = "unparsed"
    /\ LET return(outcome) ==
               /\ pending' = [NoOutcome EXCEPT !.threw = outcome.threw,
                                               !.message = outcome.message]
               /\ profile' = IF outcome.threw THEN profile ELSE outcome.value
       IN return(parseResume(input))
    /\ pc' = "parsed"
    /\ UNCHANGED <<requirements, result, calledAt, earlier, now, input, errors, thrown>>

\* a year passes before the call
ParseLater ==
    /\ pc = "unparsed"
    /\ now < InitialYear + MaxTicks
    /\ now' = now + 1
    /\ UNCHANGED <<profile, requirements, result, calledAt, earlier, input, errors, pending,
                   thrown, pc>>

NextParse == ParseResume \/ ParseLater

SpecParse == InitParse /\ [][NextParse]_vars

---------------------------------------------------------------------------
(* SpecAgent: calls of runR1 on one R1Agent, one after the other; a call   *)
(* is suspended at its await, where the caller may clear the error log     *)

InitAgent ==
    /\ profile = defaultProfile
    /\ requirements = NoRequirements
    /\ result = NoResult
    /\ calledAt = 0
    /\ earlier = NoCall
    /\ now = InitialYear
    /\ input \in AgentInputs
    /\ errors = <<>>
    /\ pending = NoOutcome
    /\ thrown = NoThrow
    /\ pc = "idle"

\* runR1 up to its await, the log of the earlier calls kept
RunR1Start_keepsLog ==
    /\ pc = "idle"
    /\ LET await(parsed) ==
               /\ pending' = parsed
               /\ errors' = parsed.errors
               /\ thrown' = IF parsed.threw
                            THEN [stage |-> "parsing", message |-> parsed.cause]
                            ELSE NoThrow
       IN await(agentParseResume(input.resumeInput, errors))
    /\ pc' = "awaiting"
    /\ UNCHANGED <<profile, requirements, result, calledAt, earlier, now, input>>

\* runR1 up to its await: the log is reset and the resume parsed
RunR1Start ==
    /\ pc = "idle"
    /\ LET await(parsed) ==
               /\ pending' = parsed
               /\ errors' = parsed.errors
               /\ thrown' = IF parsed.threw
                            THEN [stage |-> "parsing", message |-> parsed.cause]
                            ELSE NoThrow
       IN await(agentParseResume(input.resumeInput, <<>>))
    /\ pc' = "awaiting"
    /\ UNCHANGED <<profile, requirements, result, calledAt, earlier, now, input>>

\* runR1 from its await on: the parse error is thrown again, or the features
\* are extracted and the candidate is evaluated; what is thrown is caught,
\* logged and answered with the sentinel
RunR1Resume ==
    /\ pc = "awaiting"
    /\ LET return(outcome) ==
               /\ errors' = IF outcome.threw
                            THEN logError(outcome.errors, "evaluation",
                                          <<"R","1"," ","s","c","r","e","e","n","i","n","g"," ","f","a","i","l","e","d",":"," ">> \o outcome.message)
                            ELSE errors
               /\ result' = IF outcome.threw THEN createErrorResult(outcome.message)
                            ELSE outcome.value
           stages(extracted, evaluated) ==
               /\ thrown' = IF pending.threw THEN thrown
                            ELSE IF extracted.threw
                            THEN [stage |-> "extraction", message |-> extracted.cause]
                            ELSE IF evaluated.threw
                            THEN [stage |-> "evaluation", message |-> evaluated.cause]
                            ELSE NoThrow
               /\ return(IF pending.threw THEN [pending EXCEPT !.errors = errors]
                         ELSE IF extracted.threw THEN extracted
                         ELSE evaluated)
               /\ profile' = IF pending.threw THEN profile ELSE pending.value
       IN stages(agentExtractFeatures(pending.value, errors),
                 agentEvaluateAgainstCriteria(pending.value, input.jobRequirements, errors))
    /\ pc' = "returned"
    /\ UNCHANGED <<requirements, calledAt, earlier, now, input, pending>>

\* clearErrors
ClearErrors ==
    /\ pc \in {"idle", "awaiting", "returned"}
    /\ errors' = <<>>
    /\ UNCHANGED <<profile, requirements, result, calledAt, earlier, now, input, pending,
                   thrown, pc>>

\* the caller takes the result and turns to the next resume and job
NextCall ==
    /\ pc = "returned"
    /\ input' \in AgentInputs
    /\ profile' = defaultProfile
    /\ result' = NoResult
    /\ pending' = NoOutcome
    /\ thrown' = NoThrow
    /\ pc' = "idle"
    /\ UNCHANGED <<requirements, calledAt, earlier, now, errors>>

NextAgent == RunR1Start \/ RunR1Resume \/ ClearErrors \/ NextCall

SpecAgent == InitAgent /\ [][NextAgent]_vars

---------------------------------------------------------------------------
(* SpecScreen: a call of the evaluator or calls of the agent               *)

InitScreen == InitEval \/ InitAgent

NextScreen == NextEval \/ NextAgent

SpecScreen == InitScreen /\ [][NextScreen]_vars

---------------------------------------------------------------------------
(* Properties of the evaluator                                             *)

\* String.prototype.startsWith
startsWith(s, prefix) == occursAt(s, prefix, 0)

returned == result.screeningResult # "none"

\* months of all work-experience entries of the profile
TotalMonths == sum([i \in 1..Len(profile.workExperience) |-> profile.workExperience[i].duration])

\* total years: the months over 12, rounded to the nearest integer, halves up
TotalYears == CHOOSE y \in -1..(TotalMonths + 1) : 12 * y - 6 <= TotalMonths /\ TotalMonths < 12 * y + 6

MeetsMinimumYears == TotalYears >= requirements.minimumYearsOfExperience

HasRelevanceKeyword ==
    \E i \in 1..Len(profile.workExperience) : \E k \in 1..Len(relevantKeywords) :
        \/ includes(toLowerCase(profile.workExperience[i].title), relevantKeywords[k])
        \/ /\ profile.workExperience[i].description # Undefined
           /\ includes(toLowerCase(profile.workExperience[i].description), relevantKeywords[k])

\* the candidate's skill names, compared without regard to case
HasSkillNamed(name) ==
    \E i \in 1..Len(profile.skills) : toLowerCase(profile.skills[i].name) = toLowerCase(name)

HasFixedListSkill == \E k \in 1..Len(requiredSkills) : HasSkillNamed(requiredSkills[k])

VocabularyMatches == Cardinality({k \in 1..Len(allSkills) : HasSkillNamed(allSkills[k])})

HalfOfVocabulary == 2 * 100 * VocabularyMatches + Len(allSkills) >= 2 * 50 * Len(allSkills)

DegreeRank(level) ==
    CASE level = <<"h","i","g","h","_","s","c","h","o","o","l">> -> 1 [] level = <<"a","s","s","o","c","i","a","t","e">> -> 2 [] level = <<"b","a","c","h","e","l","o","r">> -> 3
      [] level = <<"m","a","s","t","e","r">> -> 4 [] level = <<"p","h","d">> -> 5

\* rank of the highest level over the education entries, 1 when there is none
EducationRank ==
    LET ranks == {DegreeRank(degreeTier(profile.education[i].degree)) : i \in 1..Len(profile.education)}
                 \cup {1}
    IN CHOOSE r \in ranks : \A q \in ranks : q <= r

MeetsDegree == EducationRank >= DegreeRank(requirements.requiredEducation.minimumDegree)

HasRelevantField ==
    \E i \in 1..Len(profile.education) : \E k \in 1..Len(relevantFields) :
        /\ profile.education[i].field # Undefined
        /\ includes(toLowerCase(profile.education[i].field), relevantFields[k])

NoCertificationRequired ==
    requirements.requiredCertifications \in {UndefinedArray, <<>>}

MeetsCertifications == NoCertificationRequired \/ Len(profile.certifications) >= 1

Points(condition, points) == IF condition THEN points ELSE 0

EarnedPoints ==
    Points(MeetsMinimumYears, 20) + Points(HasRelevanceKeyword, 10)
    + Points(HasFixedListSkill, 25) + Points(HalfOfVocabulary, 15)
    + Points(MeetsDegree, 15) + Points(HasRelevantField, 5)
    + Points(MeetsCertifications, 10)

\* C1: every returned ScreeningResult has a confidence within [0,1] (0..100
\* hundredths) and is 'pass' if and only if the confidence is at least 0.70
C1_ConfidenceInRangeAndPassIffSeventy ==
    returned =>
        /\ result.confidenceScore >= 0
        /\ result.confidenceScore <= 100
        /\ result.screeningResult \in {"pass", "fail"}
        /\ result.screeningResult = "pass" <=> result.confidenceScore >= 70

\* a result exactly on the threshold
C1_Witness == returned /\ result.confidenceScore = 70 /\ result.screeningResult = "pass"

\* C3: the confidence in hundredths is the sum of the seven awards, each earned
\* on its own condition
C3_ConfidenceIsSumOfSevenAwards ==
    (returned /\ pc = "done") => result.confidenceScore = EarnedPoints

\* the relevance bonus and the vocabulary bonus earned without their category passing
C3_Witness ==
    /\ returned /\ pc = "done"
    /\ ~MeetsMinimumYears /\ HasRelevanceKeyword
    /\ ~HasFixedListSkill /\ HalfOfVocabulary
    /\ ~MeetsDegree /\ HasRelevantField
    /\ result.confidenceScore = 10 + 15 + 5 + Points(MeetsCertifications, 10)

\* two jobs that agree on the minimum years, the minimum degree and on whether
\* certifications are required
SameGates(r1, r2) ==
    /\ r1.minimumYearsOfExperience = r2.minimumYearsOfExperience
    /\ r1.requiredEducation.minimumDegree = r2.requiredEducation.minimumDegree
    /\ (r1.requiredCertifications \in {UndefinedArray, <<>>})
           <=> (r2.requiredCertifications \in {UndefinedArray, <<>>})

isMissingSkillsEntry(entry) == startsWith(entry, <<"M","i","s","s","i","n","g"," ","r","e","q","u","i","r","e","d"," ","s","k","i","l","l","s",":"," ">>)

\* C4: jobs with the same gates give the same decision, confidence and reasons
\* for a profile, and the same missing requirements apart from the text of the
\* 'Missing required skills' entry
C4_SkillListsDoNotChangeDecision ==
    (returned /\ pc = "done") =>
        \A r2 \in JobRequirementsSet :
            SameGates(requirements, r2) =>
                LET other == evaluateAgainstCriteria(profile, r2)
                IN /\ other.screeningResult = result.screeningResult
                   /\ other.confidenceScore = result.confidenceScore
                   /\ other.matchReasons = result.matchReasons
                   /\ Len(other.missingRequirements) = Len(result.missingRequirements)
                   /\ \A i \in 1..Len(result.missingRequirements) :
                          \/ other.missingRequirements[i] = result.missingRequirements[i]
                          \/ /\ isMissingSkillsEntry(other.missingRequirements[i])
                             /\ isMissingSkillsEntry(result.missingRequirements[i])

\* a job with the same gates and other skill lists changes the text of the
\* 'Missing required skills' entry and nothing else
C4_Witness ==
    /\ returned /\ pc = "done"
    /\ \E r2 \in JobRequirementsSet :
           /\ SameGates(requirements, r2)
           /\ r2.requiredSkills # requirements.requiredSkills
           /\ r2.preferredSkills # requirements.preferredSkills
           /\ r2.requiredCertifications # requirements.requiredCertifications
           /\ evaluateAgainstCriteria(profile, r2).missingRequirements
                  # result.missingRequirements

\* C5: the threshold is the only gate: a candidate below the minimum years, or
\* with any other missing requirement, passes whenever the points earned reach 70
C5_ThresholdIsTheOnlyGate ==
    (returned /\ pc = "done" /\ EarnedPoints >= 70) => result.screeningResult = "pass"

\* below the minimum years, passing on relevance 10 + skills 40 + education 20 +
\* certifications 10
C5_Witness ==
    /\ returned /\ pc = "done"
    /\ ~MeetsMinimumYears
    /\ HasRelevanceKeyword /\ HasFixedListSkill /\ HalfOfVocabulary
    /\ MeetsDegree /\ HasRelevantField /\ MeetsCertifications
    /\ result.confidenceScore = 80
    /\ result.screeningResult = "pass"

YearsReason == <<"U+2713"," ">> \o numberToString(TotalYears) \o <<" ","y","e","a","r","s"," ","o","f"," ","e","x","p","e","r","i","e","n","c","e">>
YearsMissing ==
    <<"R","e","q","u","i","r","e","s"," ">> \o numberToString(requirements.minimumYearsOfExperience) \o <<"+"," ","y","e","a","r","s"," ","e","x","p","e","r","i","e","n","c","e">>
SkillsReason == <<"U+2713"," ","H","a","s"," ","r","e","q","u","i","r","e","d"," ","t","e","c","h","n","i","c","a","l"," ","s","k","i","l","l","s">>
EducationReason == <<"U+2713"," ","M","e","e","t","s"," ","e","d","u","c","a","t","i","o","n"," ","r","e","q","u","i","r","e","m","e","n","t","s">>
EducationMissing ==
    <<"R","e","q","u","i","r","e","s"," ">> \o requirements.requiredEducation.minimumDegree \o <<" ","d","e","g","r","e","e">>
CertificationReason == <<"U+2713"," ","H","a","s"," ","r","e","l","e","v","a","n","t"," ","c","e","r","t","i","f","i","c","a","t","i","o","n","s">>
CertificationMissing == <<"M","i","s","s","i","n","g"," ","r","e","q","u","i","r","e","d"," ","c","e","r","t","i","f","i","c","a","t","i","o","n","s">>

Reported(entry) == arrayIncludes(result.matchReasons, entry)
Missing(entry) == arrayIncludes(result.missingRequirements, entry)
MissingSkillsReported ==
    \E i \in 1..Len(result.missingRequirements) : isMissingSkillsEntry(result.missingRequirements[i])

\* C6: experience, skills and education each add their reason exactly when the
\* category passes and their missing requirement exactly when it fails
C6_ReasonIffCategoryPasses ==
    (returned /\ pc = "done") =>
        /\ Reported(YearsReason) <=> MeetsMinimumYears
        /\ Missing(YearsMissing) <=> ~MeetsMinimumYears
        /\ Reported(SkillsReason) <=> HasFixedListSkill
        /\ MissingSkillsReported <=> ~HasFixedListSkill
        /\ Reported(EducationReason) <=> MeetsDegree
        /\ Missing(EducationMissing) <=> ~MeetsDegree

\* a candidate holding exactly the required degree, short of the minimum years
C6_Witness ==
    /\ returned /\ pc = "done"
    /\ EducationRank = DegreeRank(requirements.requiredEducation.minimumDegree)
    /\ Reported(EducationReason)
    /\ ~MeetsMinimumYears /\ Missing(YearsMissing)
    /\ HasFixedListSkill /\ Reported(SkillsReason)

\* the required skills no candidate skill equals without regard to case, in the job's order
AbsentRequiredSkills ==
    SelectSeq(requirements.requiredSkills, LAMBDA skill : ~HasSkillNamed(skill))

MissingSkillsEntries ==
    SelectSeq(result.missingRequirements, isMissingSkillsEntry)

\* C7: when the skills category fails there is one 'Missing required skills: '
\* entry, listing exactly the required skills the candidate lacks
C7_MissingSkillsListsAbsentRequiredSkills ==
    (returned /\ pc = "done" /\ ~HasFixedListSkill) =>
        MissingSkillsEntries =
            << <<"M","i","s","s","i","n","g"," ","r","e","q","u","i","r","e","d"," ","s","k","i","l","l","s",":"," ">> \o join(AbsentRequiredSkills, <<","," ">>) >>

\* a candidate with one of the two required skills under another capitalisation
C7_Witness ==
    /\ returned /\ pc = "done" /\ ~HasFixedListSkill
    /\ requirements.requiredSkills = << <<"P","h","o","t","o","s","h","o","p">>, <<"J","a","v","a","S","c","r","i","p","t">> >>
    /\ Missing(<<"M","i","s","s","i","n","g"," ","r","e","q","u","i","r","e","d"," ","s","k","i","l","l","s",":"," ","J","a","v","a","S","c","r","i","p","t">>)

PointsOfOtherCategories ==
    Points(MeetsMinimumYears, 20) + Points(HasRelevanceKeyword, 10)
    + Points(HasFixedListSkill, 25) + Points(HalfOfVocabulary, 15)
    + Points(MeetsDegree, 15) + Points(HasRelevantField, 5)

\* C8 as stated: with no certification required the category earns its 10
\* points and adds neither a reason nor a missing requirement; with some
\* required it passes iff the candidate has a certification, adding the reason
\* on pass and the missing requirement on fail
C8_VacuousPassAddsNoReason ==
    (returned /\ pc = "done") =>
        /\ NoCertificationRequired =>
               /\ result.confidenceScore = PointsOfOtherCategories + 10
               /\ ~Reported(CertificationReason)
               /\ ~Missing(CertificationMissing)
        /\ ~NoCertificationRequired =>
               /\ Reported(CertificationReason) <=> Len(profile.certifications) >= 1
               /\ Missing(CertificationMissing) <=> Len(profile.certifications) = 0

\* C8 amended: the reason is added whenever the category passes, also when no
\* certification is required
C8_ReasonAddedOnEveryPass ==
    (returned /\ pc = "done") =>
        /\ NoCertificationRequired =>
               /\ result.confidenceScore = PointsOfOtherCategories + 10
               /\ Reported(CertificationReason)
               /\ ~Missing(CertificationMissing)
        /\ ~NoCertificationRequired =>
               /\ Reported(CertificationReason) <=> Len(profile.certifications) >= 1
               /\ Missing(CertificationMissing) <=> Len(profile.certifications) = 0

\* no certification required, none held, and the reason reported
C8_Witness ==
    /\ returned /\ pc = "done"
    /\ NoCertificationRequired /\ Len(profile.certifications) = 0
    /\ Reported(CertificationReason)
    /\ result.missingRequirements = <<>>

StagePrefix(stage) ==
    CASE stage = "parsing" -> <<"F","a","i","l","e","d"," ","t","o"," ","p","a","r","s","e"," ","r","e","s","u","m","e",":"," ">>
      [] stage = "extraction" -> <<"F","a","i","l","e","d"," ","t","o"," ","e","x","t","r","a","c","t"," ","f","e","a","t","u","r","e","s",":"," ">>
      [] stage = "evaluation" -> <<"F","a","i","l","e","d"," ","t","o"," ","e","v","a","l","u","a","t","e"," ","c","a","n","d","i","d","a","t","e",":"," ">>

\* C2: runR1 always returns a ScreeningResult; when parsing, feature extraction
\* or evaluation has thrown, the result is 'fail' with confidence 0 and the
\* default profile, and its errorMessages hold the message of the failing
\* stage, which contains the message of the original exception
C2_StageFailureGivesSentinel ==
    pc = "returned" =>
        /\ result.screeningResult \in {"pass", "fail"}
        /\ thrown.stage # "none" =>
               /\ result.screeningResult = "fail"
               /\ result.confidenceScore = 0
               /\ result.candidateProfile.fullName = <<"U","n","k","n","o","w","n">>
               /\ result.candidateProfile.email = <<>>
               /\ result.candidateProfile.phone = <<>>
               /\ result.candidateProfile.education = <<>>
               /\ result.candidateProfile.workExperience = <<>>
               /\ result.candidateProfile.skills = <<>>
               /\ result.candidateProfile.certifications = <<>>
               /\ Len(result.errorMessages) = 1
               /\ startsWith(result.errorMessages[1], StagePrefix(thrown.stage))
               /\ Len(thrown.message) > 0
               /\ includes(result.errorMessages[1], thrown.message)

\* feature extraction has thrown on a skill whose name is a number
C2_Witness ==
    /\ pc = "returned"
    /\ thrown.stage = "extraction"
    /\ result.errorMessages =
           << <<"F","a","i","l","e","d"," ","t","o"," ","e","x","t","r","a","c","t"," ","f","e","a","t","u","r","e","s",":"," ","s","k","i","l","l",".","n","a","m","e",".","t","o","L","o","w","e","r","C","a","s","e"," ","i","s"," ","n","o","t"," ","a"," ","f","u","n","c","t","i","o","n">> >>

\* the lines of a raw text without the white space around them
trimmedLines(rawText) ==
    LET lines == split(rawText, "\n")
    IN [k \in 1..Len(lines) |-> trim(lines[k])] \o <<>>

\* a heading that stands on its own line, followed by a line that holds the phrase
HasSection(rawText, heading, phrase) ==
    LET lines == trimmedLines(rawText)
    IN \E k \in 1..(Len(lines) - 1) : lines[k] = heading /\ includes(lines[k + 1], phrase)

\* C10: for a raw resume whose EDUCATION and SKILLS headings stand on their own
\* lines, followed by a degree phrase and by vocabulary skills, parseResume
\* returns a profile whose education and skills are not empty
C10_SectionedResumeGivesEducationAndSkills ==
    ( /\ pc = "parsed"
      /\ input.kind = "string"
      /\ HasSection(input.value, <<"E","D","U","C","A","T","I","O","N">>, <<"B","a","c","h","e","l","o","r"," ","o","f"," ","S","c","i","e","n","c","e"," ","i","n"," ","C","o","m","p","u","t","e","r"," ","S","c","i","e","n","c","e">>)
      /\ HasSection(input.value, <<"S","K","I","L","L","S">>, <<"J","a","v","a","S","c","r","i","p","t",","," ","R","e","a","c","t",","," ","N","o","d","e",".","j","s",","," ","S","Q","L">>) )
    => /\ ~pending.threw
       /\ profile.education # <<>>
       /\ profile.skills # <<>>

---------------------------------------------------------------------------
(* Properties of the parser                                                *)

\* a text of decimal digits, after a plus sign or not
isDialString(s) ==
    \A k \in 1..Len(s) : s[k] \in DigitSet \/ (k = 1 /\ s[k] = "+")

\* C11: the phone of a profile parsed from raw text holds digits only, after
\* an optional leading plus sign; the text '(555) 123-4567' is stored as
\* '5551234567'; when neither phone pattern matches, the phone is empty
C11_PhoneIsDigitsOnly ==
    (pc = "parsed" /\ input.kind = "string" /\ ~pending.threw) =>
        /\ isDialString(profile.phone)
        /\ includes(input.value, <<"(","5","5","5",")"," ","1","2","3","-","4","5","6","7">>) => profile.phone = <<"5","5","5","1","2","3","4","5","6","7">>
        /\ ( /\ ~exec(phonePatternNorthAmerican, normalizeText(input.value), 0, FALSE).found
             /\ ~exec(phonePatternInternational, normalizeText(input.value), 0, FALSE).found )
           => profile.phone = <<>>

---------------------------------------------------------------------------
(* Properties of screening an empty resume                                 *)

EmptyRawResume == Obj([type |-> Str(<<"r","a","w">>), content |-> Str(<<>>)])

\* a job that holds the parts the evaluator reads
IsCompleteJob(job) ==
    /\ job.kind = "object"
    /\ {"minimumYearsOfExperience", "requiredSkills", "requiredEducation"} \subseteq DOMAIN job.value

\* runR1 has returned for the empty raw text and a complete job
ScreenedEmptyResume ==
    /\ pc = "returned"
    /\ input.resumeInput = EmptyRawResume
    /\ IsCompleteJob(input.jobRequirements)

\* the profile and the verdict every empty raw text gets
EmptyResumeTakesNormalPath ==
    /\ thrown.stage = "none"
    /\ result.candidateProfile.fullName = <<"U","n","k","n","o","w","n">>
    /\ result.candidateProfile.email = <<>>
    /\ result.candidateProfile.phone = <<>>
    /\ result.candidateProfile.education = <<>>
    /\ result.candidateProfile.workExperience = <<>>
    /\ result.candidateProfile.skills = <<>>
    /\ result.candidateProfile.certifications = <<>>
    /\ result.screeningResult = "fail"
    /\ result.errorMessages = <<>>

\* the points a profile without any entry earns from a job
PointsOfEmptyProfile(job) ==
    Points(job.minimumYearsOfExperience <= 0, 20)
    + Points(DegreeRank(job.requiredEducation.minimumDegree) <= 1, 15)
    + Points(job.requiredCertifications \in {UndefinedArray, <<>>}, 10)

\* C12 as stated: the empty raw text takes the normal path and gets the
\* profile of defaults and 'fail' with a confidence of at most 0.10, without
\* error messages; errorMessages is non-empty exactly when a stage has failed
C12_EmptyTextScoresAtMostTen ==
    /\ ScreenedEmptyResume =>
           /\ EmptyResumeTakesNormalPath
           /\ result.confidenceScore <= 10
    /\ pc = "returned" => (result.errorMessages # <<>> <=> thrown.stage # "none")

\* C12 amended: the confidence of the empty raw text is the points its job
\* grants to a profile without entries: 20 when it asks for no experience, 15
\* when it asks for no degree above high school, 10 when it requires no
\* certification; at most 0.45, and at most 0.10 only for a job that asks for a
\* year of experience or more and for more than high school
C12_EmptyTextScoresVacuousPoints ==
    /\ ScreenedEmptyResume =>
           /\ EmptyResumeTakesNormalPath
           /\ result.confidenceScore = PointsOfEmptyProfile(input.jobRequirements.value)
           /\ result.confidenceScore <= 45
           /\ ( /\ input.jobRequirements.value.minimumYearsOfExperience >= 1
                /\ DegreeRank(input.jobRequirements.value.requiredEducation.minimumDegree) > 1 )
              => result.confidenceScore <= 10
    /\ pc = "returned" => (result.errorMessages # <<>> <=> thrown.stage # "none")

\* the empty raw text screened for a job that asks for high school only
C12_Witness ==
    /\ ScreenedEmptyResume
    /\ input.jobRequirements.value.requiredEducation.minimumDegree = <<"h","i","g","h","_","s","c","h","o","o","l">>
    /\ result.confidenceScore = 25
    /\ result.errorMessages = <<>>

---------------------------------------------------------------------------
(* Properties of structured parsing                                        *)

\* the value of the first of the names that the object has as a property;
\* undefined when it has none of them
firstPresent(obj, names) ==
    LET present == {k \in 1..Len(names) : names[k] \in DOMAIN obj.value}
    IN IF present = {} THEN Undef ELSE obj.value[names[least(present)]]

\* a structured resume has been parsed into a profile
ParsedStructured == pc = "parsed" /\ input.kind = "object" /\ ~pending.threw

\* the list of the resume under the first present of the names, empty when absent
sourceList(names) ==
    IF firstPresent(input, names) = Undef THEN <<>> ELSE firstPresent(input, names).value

\* the text the profile holds is the text of the first present property
carriedOver(text, obj, names) ==
    firstPresent(obj, names) # Undef => text = textOf(firstPresent(obj, names))

\* C13: each canonical field of a profile parsed from a structured resume holds
\* the value of the first property present in its list of alternate names,
\* unchanged; an explicit duration is kept as given; the four lists keep their
\* length and order
C13_FirstPresentValueIsCarriedOver ==
    ParsedStructured =>
        /\ carriedOver(profile.fullName, input, <<"name", "fullName">>)
        /\ carriedOver(profile.email, input, <<"email">>)
        /\ carriedOver(profile.phone, input, <<"phone", "phoneNumber">>)
        /\ Len(profile.education) = Len(sourceList(<<"education">>))
        /\ Len(profile.workExperience) = Len(sourceList(<<"experience", "workExperience">>))
        /\ Len(profile.skills) = Len(sourceList(<<"skills">>))
        /\ Len(profile.certifications) = Len(sourceList(<<"certifications">>))
        /\ \A i \in 1..Len(profile.education) :
               /\ carriedOver(profile.education[i].degree,
                              sourceList(<<"education">>)[i], <<"degree", "name">>)
               /\ carriedOver(profile.education[i].institution,
                              sourceList(<<"education">>)[i],
                              <<"institution", "school", "university">>)
        /\ \A i \in 1..Len(profile.workExperience) :
               /\ carriedOver(profile.workExperience[i].title,
                              sourceList(<<"experience", "workExperience">>)[i],
                              <<"title", "jobTitle", "position">>)
               /\ carriedOver(profile.workExperience[i].company,
                              sourceList(<<"experience", "workExperience">>)[i],
                              <<"company", "employer", "organization">>)
               /\ firstPresent(sourceList(<<"experience", "workExperience">>)[i],
                               <<"duration">>) # Undef
                  => profile.workExperience[i].duration =
                         firstPresent(sourceList(<<"experience", "workExperience">>)[i],
                                      <<"duration">>).value
        /\ \A i \in 1..Len(profile.skills) :
               sourceList(<<"skills">>)[i].kind = "string"
               => profile.skills[i].name = sourceList(<<"skills">>)[i].value

\* the months between the years of the canonical dates of a work entry: up to
\* the current year without an end date, none without a start date
monthsBetween(startDate, endDate) ==
    IF falsyText(startDate) THEN 0
    ELSE ((IF falsyText(endDate) THEN now ELSE parseInt(Str(endDate)))
          - parseInt(Str(startDate))) * 12

\* C14: a work entry of a structured resume that has no duration gets the
\* months between the years of its canonical start and end dates, under
\* whichever accepted name the resume gave them; the current year stands for a
\* missing end date, and the duration is 0 without a start date
C14_DurationDerivedFromCanonicalDates ==
    ParsedStructured =>
        \A i \in 1..Len(profile.workExperience) :
            firstPresent(sourceList(<<"experience", "workExperience">>)[i], <<"duration">>) = Undef
            => profile.workExperience[i].duration =
                   monthsBetween(profile.workExperience[i].startDate,
                                 profile.workExperience[i].endDate)

---------------------------------------------------------------------------
(* Properties of every parsed profile                                      *)

\* parseResume has returned a profile
ParsedProfile == pc = "parsed" /\ ~pending.threw

\* the required text fields of the profile and of its entries
RequiredTexts ==
    {profile.fullName, profile.email, profile.phone}
    \cup {profile.education[i].degree : i \in 1..Len(profile.education)}
    \cup {profile.education[i].institution : i \in 1..Len(profile.education)}
    \cup {profile.workExperience[i].title : i \in 1..Len(profile.workExperience)}
    \cup {profile.workExperience[i].company : i \in 1..Len(profile.workExperience)}
    \cup {profile.workExperience[i].startDate : i \in 1..Len(profile.workExperience)}
    \cup {profile.skills[i].name : i \in 1..Len(profile.skills)}
    \cup {profile.skills[i].category : i \in 1..Len(profile.skills)}
    \cup {profile.certifications[i].name : i \in 1..Len(profile.certifications)}
    \cup {profile.certifications[i].issuingOrganization : i \in 1..Len(profile.certifications)}

\* the four lists are sequences and every work entry has a duration
ListsAndDurationsDefined ==
    /\ \A list \in {profile.education, profile.workExperience, profile.skills,
                    profile.certifications} : DOMAIN list = 1..Len(list)
    /\ \A i \in 1..Len(profile.workExperience) : profile.workExperience[i].duration \in Int

\* the values of the resume and of the entries of its lists that are neither
\* text nor empty
NonTextValues ==
    LET entries == UNION {{sourceList(names)[i] : i \in 1..Len(sourceList(names))} :
                             names \in {<<"education">>, <<"experience", "workExperience">>,
                                        <<"skills">>, <<"certifications">>}}
        objects == {input} \cup {e \in entries : e.kind = "object"}
    IN UNION {{o.value[key] : key \in DOMAIN o.value} : o \in objects}

C16_ThrowsOnlyForOtherInputs ==
    pc = "parsed" => (pending.threw => input.kind \notin {"string", "object"})

---------------------------------------------------------------------------
(* SpecFeatures: one call of FeatureExtractor.extractFeatures, or of the    *)
(* evaluator's extractEvaluationFeatures, on a profile                      *)

MaxDegrees == 2

\* a job of so many months; less than none when it ends before it starts
WorkEntry(months) ==
    [title |-> <<"S","o","f","t","w","a","r","e"," ","E","n","g","i","n","e","e","r">>, company |-> <<"T","e","s","t"," ","C","o","m","p","a","n","y">>, startDate |-> <<"2","0","2","0">>,
     endDate |-> <<"2","0","2","3">>, duration |-> months, description |-> <<"D","e","v","e","l","o","p","e","d"," ","w","e","b"," ","a","p","p","l","i","c","a","t","i","o","n","s">>,
     technologies |-> Arr(<<>>)]

FeatureJobs == {WorkEntry(months) : months \in {6, 18, 36, 432, -12}}

Degree(text) ==
    [degree |-> text, institution |-> <<"T","e","s","t"," ","U","n","i","v","e","r","s","i","t","y">>, graduationYear |-> Num(2020),
     field |-> <<"C","o","m","p","u","t","e","r"," ","S","c","i","e","n","c","e">>]

FeatureDegrees ==
    {Degree(text) : text \in { <<"B","a","c","h","e","l","o","r"," ","o","f"," ","S","c","i","e","n","c","e"," ","i","n"," ","C","o","m","p","u","t","e","r"," ","S","c","i","e","n","c","e">>, <<"M","a","s","t","e","r"," ","o","f"," ","S","c","i","e","n","c","e">>,
                               <<"P","h","D"," ","i","n"," ","P","h","y","s","i","c","s">>, <<"A","s","s","o","c","i","a","t","e"," ","o","f"," ","A","r","t","s">>, <<"D","i","p","l","o","m","a">>,
                               <<"C","e","r","t","i","f","i","c","a","t","e">> }}

FeatureProfiles ==
    { [fullName |-> <<"T","e","s","t"," ","C","a","n","d","i","d","a","t","e">>, email |-> <<"t","e","s","t","@","e","m","a","i","l",".","c","o","m">>, phone |-> <<"5","5","5","1","2","3","4","5","6","7">>,
       education |-> e, workExperience |-> w,
       skills |-> << Skill(<<"J","a","v","a","S","c","r","i","p","t">>), Skill(<<"R","e","a","c","t">>), Skill(<<"N","o","d","e",".","j","s">>) >>,
       certifications |-> <<>>] :
      e \in SeqsUpTo(FeatureDegrees, MaxDegrees), w \in SeqsUpTo(FeatureJobs, MaxJobs) }

InitFeatures ==
    /\ profile \in FeatureProfiles
    /\ requirements = NoRequirements
    /\ result = NoResult
    /\ calledAt = 0
    /\ earlier = NoCall
    /\ now = InitialYear
    /\ input = NoInput
    /\ errors = <<>>
    /\ pending = NoOutcome
    /\ thrown = NoThrow
    /\ pc = "profiled"

\* FeatureExtractor.extractFeatures
ExtractFeatures ==
    /\ pc = "profiled"
    /\ LET return(outcome) ==
               pending' = [NoOutcome EXCEPT !.threw = outcome.threw,
                                            !.message = outcome.message,
                                            !.value = outcome.value]
       IN return(extractFeatures(profile))
    /\ pc' = "extracted"
    /\ UNCHANGED <<profile, requirements, result, calledAt, earlier, now, input, errors, thrown>>

\* ResumeEvaluator.extractEvaluationFeatures
ExtractEvaluationFeatures ==
    /\ pc = "profiled"
    /\ pending' = [NoOutcome EXCEPT !.value = extractEvaluationFeatures(profile)]
    /\ pc' = "analysed"
    /\ UNCHANGED <<profile, requirements, result, calledAt, earlier, now, input, errors, thrown>>

NextFeatures == ExtractFeatures \/ ExtractEvaluationFeatures

SpecFeatures == InitFeatures /\ [][NextFeatures]_vars

---------------------------------------------------------------------------
(* Properties of the features                                              *)

\* the integer nearest to months / 12, the greater one of two
NearestYears(months) ==
    LET most == IF months >= 0 THEN months + 1 ELSE 1 - months
    IN CHOOSE y \in -most..most : 12 * y - 6 <= months /\ months < 12 * y + 6

\* the total years that the call has computed
ComputedTotalYears ==
    IF pc = "extracted" THEN pending.value.totalYearsExperience ELSE pending.value.totalExperience

\* C17: the total years of experience, of the FeatureExtractor and of the
\* evaluator, are the months of all work entries over 12, rounded to the
\* nearest integer with halves up; they are not negative when no duration is;
\* 36 months give 3 years
C17_TotalYearsIsRoundedMonths ==
    pc \in {"extracted", "analysed"} =>
        /\ ComputedTotalYears = NearestYears(TotalMonths)
        /\ (\A i \in 1..Len(profile.workExperience) : profile.workExperience[i].duration >= 0)
           => ComputedTotalYears >= 0
        /\ TotalMonths = 36 => ComputedTotalYears = 3

\* the FeatureExtractor has rounded 42 months, three and a half years, up to 4
C17_Witness ==
    /\ pc = "extracted"
    /\ TotalMonths = 42
    /\ pending.value.totalYearsExperience = 4

\* C18: meetsExperienceRequirement of the FeatureExtractor is true if and only
\* if the months of all work entries are at least 36, whatever the job
C18_MeetsExperienceIffThirtySixMonths ==
    pc = "extracted" => (pending.value.meetsExperienceRequirement <=> TotalMonths >= 36)

\* the tiers of keywords in the order they are tried, each with its level
KeywordTiers ==
    << [level |-> <<"p","h","d">>, keywords |-> { <<"p","h","d">>, <<"d","o","c","t","o","r","a","t","e">> }],
       [level |-> <<"m","a","s","t","e","r">>, keywords |-> { <<"m","a","s","t","e","r">>, <<"m","s">>, <<"m","a">> }],
       [level |-> <<"b","a","c","h","e","l","o","r">>, keywords |-> { <<"b","a","c","h","e","l","o","r">>, <<"b","s">>, <<"b","a">> }],
       [level |-> <<"a","s","s","o","c","i","a","t","e">>, keywords |-> { <<"a","s","s","o","c","i","a","t","e">>, <<"a","a">>, <<"a","s">> }] >>

\* the level of the first tier with a keyword that the lower-cased degree
\* contains, 'high_school' when no tier has one
LevelOfDegree(degree) ==
    LET found == {t \in 1..Len(KeywordTiers) :
                     \E k \in KeywordTiers[t].keywords : includes(toLowerCase(degree), k)}
    IN IF found = {} THEN <<"h","i","g","h","_","s","c","h","o","o","l">> ELSE KeywordTiers[least(found)].level

\* the highest of the levels of the entries, 'high_school' without entries
HighestLevel(education) ==
    LET levels == {LevelOfDegree(education[i].degree) : i \in 1..Len(education)}
                  \cup { <<"h","i","g","h","_","s","c","h","o","o","l">> }
    IN CHOOSE level \in levels : \A other \in levels : DegreeRank(other) <= DegreeRank(level)

reversed(list) == [i \in 1..Len(list) |-> list[Len(list) + 1 - i]] \o <<>>

\* C19: educationLevel, of the FeatureExtractor and of the evaluator, is the
\* highest level over the education entries, the level of an entry being the
\* first keyword tier its lower-cased degree contains; it is 'high_school'
\* without entries or keywords, 'bachelor' for the one degree 'Bachelor of
\* Science in Computer Science', and the same for the entries in reverse order
C19_EducationLevelIsHighestTier ==
    pc \in {"extracted", "analysed"} =>
        /\ pending.value.educationLevel = HighestLevel(profile.education)
        /\ (\A i \in 1..Len(profile.education) :
                LevelOfDegree(profile.education[i].degree) = <<"h","i","g","h","_","s","c","h","o","o","l">>)
           => pending.value.educationLevel = <<"h","i","g","h","_","s","c","h","o","o","l">>
        /\ profile.education = << Degree(<<"B","a","c","h","e","l","o","r"," ","o","f"," ","S","c","i","e","n","c","e"," ","i","n"," ","C","o","m","p","u","t","e","r"," ","S","c","i","e","n","c","e">>) >>
           => pending.value.educationLevel = <<"b","a","c","h","e","l","o","r">>
        /\ pending.value.educationLevel = extractorEducationLevel(reversed(profile.education))
        /\ pending.value.educationLevel = determineEducationLevel(reversed(profile.education))

\* the doctorate before the associate degree
C19_Witness ==
    /\ pc = "extracted"
    /\ Len(profile.education) = 2
    /\ profile.education[1].degree = <<"P","h","D"," ","i","n"," ","P","h","y","s","i","c","s">>
    /\ profile.education[2].degree = <<"A","s","s","o","c","i","a","t","e"," ","o","f"," ","A","r","t","s">>
    /\ pending.value.educationLevel = <<"p","h","d">>

---------------------------------------------------------------------------
(* SpecPair: two calls of runR1 on one R1Agent that are in flight together; *)
(* each call has its own input, outcome and result, the agent has one error *)
(* log; a call runs up to its await in one step and from there on in another *)

Calls == {"first", "second"}

\* resumes that fail in parsing, pass every stage or fail in extraction, for
\* jobs that are complete or missing
PairInputs ==
    { a \in AgentInputs :
        /\ a.resumeInput \in
               { NullValue,
                 EmptyRawResume,
                 Obj([type |-> Str(<<"s","t","r","u","c","t","u","r","e","d">>), content |-> Obj(JaneSmith)]),
                 Obj([type |-> Str(<<"s","t","r","u","c","t","u","r","e","d">>),
                      content |-> Obj([JaneSmith EXCEPT
                                          !.skills = Arr(<< Obj([name |-> Num(7)]) >>)])]) }
        /\ a.jobRequirements \in {Undef} \cup {Obj(r) : r \in EntryLevelJobs} }

InitPair ==
    /\ profile = defaultProfile
    /\ requirements = NoRequirements
    /\ result = [c \in Calls |-> NoResult]
    /\ calledAt = 0
    /\ earlier = NoCall
    /\ now = InitialYear
    /\ input \in [Calls -> PairInputs]
    /\ errors = <<>>
    /\ pending = [c \in Calls |-> NoOutcome]
    /\ thrown = [c \in Calls |-> NoThrow]
    /\ pc = [c \in Calls |-> "idle"]

\* runR1 of one call up to its await: the log of the agent is reset and the
\* resume parsed
PairStart(c) ==
    /\ pc[c] = "idle"
    /\ LET await(parsed) ==
               /\ pending' = [pending EXCEPT ![c] = parsed]
               /\ errors' = parsed.errors
               /\ thrown' = [thrown EXCEPT ![c] =
                                IF parsed.threw
                                THEN [stage |-> "parsing", message |-> parsed.cause]
                                ELSE NoThrow]
       IN await(agentParseResume(input[c].resumeInput, <<>>))
    /\ pc' = [pc EXCEPT ![c] = "awaiting"]
    /\ UNCHANGED <<profile, requirements, result, calledAt, earlier, now, input>>

\* runR1 of one call from its await on, with the log as the agent holds it now
PairResume(c) ==
    /\ pc[c] = "awaiting"
    /\ LET return(outcome) ==
               /\ errors' = IF outcome.threw
                            THEN logError(outcome.errors, "evaluation",
                                          <<"R","1"," ","s","c","r","e","e","n","i","n","g"," ","f","a","i","l","e","d",":"," ">> \o outcome.message)
                            ELSE errors
               /\ result' = [result EXCEPT ![c] =
                                IF outcome.threw THEN createErrorResult(outcome.message)
                                ELSE outcome.value]
           stages(extracted, evaluated) ==
               /\ thrown' = [thrown EXCEPT ![c] =
                                IF pending[c].threw THEN thrown[c]
                                ELSE IF extracted.threw
                                THEN [stage |-> "extraction", message |-> extracted.cause]
                                ELSE IF evaluated.threw
                                THEN [stage |-> "evaluation", message |-> evaluated.cause]
                                ELSE NoThrow]
               /\ return(IF pending[c].threw THEN [pending[c] EXCEPT !.errors = errors]
                         ELSE IF extracted.threw THEN extracted
                         ELSE evaluated)
       IN stages(agentExtractFeatures(pending[c].value, errors),
                 agentEvaluateAgainstCriteria(pending[c].value, input[c].jobRequirements,
                                              errors))
    /\ pc' = [pc EXCEPT ![c] = "returned"]
    /\ UNCHANGED <<profile, requirements, calledAt, earlier, now, input, pending>>

NextPair == \E c \in Calls : PairStart(c) \/ PairResume(c)

SpecPair == InitPair /\ [][NextPair]_vars

---------------------------------------------------------------------------
(* Properties of calls in flight together                                  *)

\* the outcome of the stages of a call that runs alone
OutcomeAlone(callInput) ==
    LET stages(parsed) ==
            IF parsed.threw THEN parsed
            ELSE IF agentExtractFeatures(parsed.value, parsed.errors).threw
            THEN agentExtractFeatures(parsed.value, parsed.errors)
            ELSE agentEvaluateAgainstCriteria(parsed.value, callInput.jobRequirements,
                                              parsed.errors)
    IN stages(agentParseResume(callInput.resumeInput, <<>>))

\* the result a call returns when it runs alone
ResultAlone(callInput) ==
    LET return(outcome) ==
            IF outcome.threw THEN createErrorResult(outcome.message) ELSE outcome.value
    IN return(OutcomeAlone(callInput))

\* the log a call leaves when it runs alone, whatever the log held before
LogAlone(callInput) ==
    LET return(outcome) ==
            IF outcome.threw
            THEN logError(outcome.errors, "evaluation",
                          <<"R","1"," ","s","c","r","e","e","n","i","n","g"," ","f","a","i","l","e","d",":"," ">> \o outcome.message)
            ELSE outcome.errors
    IN return(OutcomeAlone(callInput))

BothReturned == \A c \in Calls : pc[c] = "returned"

\* C20: however two calls of runR1 on one agent interleave at their awaits,
\* each returns the result it returns alone, and the error log after both is
\* the log that one of the two sequential orders leaves, which is the log of
\* the call that runs last
C20_InterleavedCallsAreIndependent ==
    BothReturned =>
        /\ \A c \in Calls : result[c] = ResultAlone(input[c])
        /\ \E last \in Calls : errors = LogAlone(input[last])

---------------------------------------------------------------------------
(* R1AgentEnhanced                                                         *)

\* R1AgentEnhanced.parseEducationLevel
parseEducationLevel(education) ==
    LET lowerEducation == toLowerCase(education)
    IN IF includes(lowerEducation, <<"p","h","d">>) \/ includes(lowerEducation, <<"d","o","c","t","o","r","a","t","e">>)
       THEN <<"p","h","d">>
       ELSE IF includes(lowerEducation, <<"m","a","s","t","e","r">>) THEN <<"m","a","s","t","e","r">>
       ELSE IF \/ includes(lowerEducation, <<"b","a","c","h","e","l","o","r">>) \/ includes(lowerEducation, <<"b","s">>)
               \/ includes(lowerEducation, <<"b","a">>)
            THEN <<"b","a","c","h","e","l","o","r">>
       ELSE IF includes(lowerEducation, <<"a","s","s","o","c","i","a","t","e">>) \/ includes(lowerEducation, <<"a","a">>)
            THEN <<"a","s","s","o","c","i","a","t","e">>
       ELSE <<"h","i","g","h","_","s","c","h","o","o","l">>

\* R1AgentEnhanced.convertExcelJobToRequirements
convertExcelJobToRequirements(jobDescription) ==
    [minimumYearsOfExperience |-> or(jobDescription.minimumExperience, Num(0)).value,
     requiredSkills |-> IF jobDescription.requiredSkills = UndefinedArray THEN <<>>
                        ELSE jobDescription.requiredSkills,
     preferredSkills |-> IF jobDescription.preferredSkills = UndefinedArray THEN <<>>
                         ELSE jobDescription.preferredSkills,
     requiredEducation |->
         [minimumDegree |-> parseEducationLevel(IF falsyText(jobDescription.education) THEN <<>>
                                                ELSE jobDescription.education),
          preferredFields |-> <<>>],
     requiredCertifications |-> <<>>,
     softSkills |-> <<>>]

\* R1AgentEnhanced.generateResultId
generateResultId(candidateName, jobId) ==
    toLowerCase(SelectSeq(candidateName, LAMBDA c : c \in UpperSet \cup LowerSet \cup DigitSet))
    \o <<"-">> \o jobId

\* what the body of the loop throws for a job, or NoError
screeningError(candidateProfile, jobDescription) ==
    IF extractFeatures(candidateProfile).threw THEN extractFeatures(candidateProfile).message
    ELSE IF evaluationError(candidateProfile,
                            Obj(convertExcelJobToRequirements(jobDescription))) # NoError
    THEN evaluationError(candidateProfile, Obj(convertExcelJobToRequirements(jobDescription)))
    ELSE IF ~isString(candidateProfile.fullName)
    THEN notAFunction(<<"c","a","n","d","i","d","a","t","e","N","a","m","e",".","r","e","p","l","a","c","e">>)
    ELSE NoError

\* a Map after set(key, value)
mapSet(map, key, value) ==
    [k \in DOMAIN map \cup {key} |-> IF k = key THEN value ELSE map[k]]

\* the loop of screenResumeAgainstMultipleJobs over jobDescriptions[1..n]: the
\* results pushed and the screening history; a job whose screening throws is
\* logged and left out
RECURSIVE screenedAfter(_, _, _, _)
screenedAfter(candidateProfile, jobDescriptions, n, history) ==
    IF n = 0 THEN [screeningResults |-> <<>>, screeningHistory |-> history]
    ELSE LET push(before, jobDescription) ==
                 IF screeningError(candidateProfile, jobDescription) # NoError THEN before
                 ELSE LET stored(screened) ==
                              [screeningResults |->
                                   Append(before.screeningResults,
                                          [jobDescription |-> jobDescription,
                                           result |-> screened]),
                               screeningHistory |->
                                   mapSet(before.screeningHistory,
                                          generateResultId(candidateProfile.fullName,
                                                           jobDescription.id),
                                          screened)]
                      IN stored(evaluateAgainstCriteria(
                                    candidateProfile,
                                    convertExcelJobToRequirements(jobDescription)))
         IN push(screenedAfter(candidateProfile, jobDescriptions, n - 1, history),
                 jobDescriptions[n])

\* sort by falling confidence, stable, of the results that passed, and the
\* first three of them
bestMatches(screeningResults) ==
    LET passed == SelectSeq(screeningResults, LAMBDA r : r.result.screeningResult = "pass")
        \* the place of entry i after the stable sort
        place(i) == Cardinality({j \in 1..Len(passed) :
                        \/ passed[j].result.confidenceScore > passed[i].result.confidenceScore
                        \/ /\ passed[j].result.confidenceScore = passed[i].result.confidenceScore
                           /\ j <= i})
        sorted == [p \in 1..Len(passed) |-> passed[CHOOSE i \in 1..Len(passed) : place(i) = p]]
    IN [p \in 1..(IF Len(passed) < 3 THEN Len(passed) ELSE 3) |->
            [job |-> sorted[p].jobDescription,
             score |-> sorted[p].result.confidenceScore,
             reasons |-> sorted[p].result.matchReasons]] \o <<>>

\* R1AgentEnhanced.screenResumeAgainstMultipleJobs: the parser is given the
\* ResumeInput itself
screenResumeAgainstMultipleJobs(resumeInput, jobDescriptions, history) ==
    LET screen(parsed) ==
            IF parsed.threw THEN [parsed EXCEPT !.value = [screeningHistory |-> history]]
            ELSE LET return(screened) ==
                         Returned(
                             [candidateProfile |-> parsed.value,
                              screeningResults |-> screened.screeningResults,
                              summary |->
                                  [totalJobs |-> Len(jobDescriptions),
                                   passedJobs |->
                                       Len(SelectSeq(screened.screeningResults,
                                               LAMBDA r : r.result.screeningResult = "pass")),
                                   failedJobs |->
                                       Len(SelectSeq(screened.screeningResults,
                                               LAMBDA r : r.result.screeningResult = "fail")),
                                   bestMatches |-> bestMatches(screened.screeningResults)],
                              screeningHistory |-> screened.screeningHistory])
                 IN return(screenedAfter(parsed.value, jobDescriptions, Len(jobDescriptions),
                                         history))
    IN screen(parseResume(resumeInput))

---------------------------------------------------------------------------
(* SpecBatch: one call of screenResumeAgainstMultipleJobs on a new         *)
(* R1AgentEnhanced; earlier holds the agent's screening history             *)

MaxJobDescriptions == 2

FrontendJob ==
    [id |-> <<"j","o","b","-","1">>, title |-> <<"F","r","o","n","t","e","n","d"," ","D","e","v","e","l","o","p","e","r">>, company |-> <<"T","e","c","h"," ","C","o","r","p">>,
     description |-> <<"B","u","i","l","d"," ","w","e","b"," ","a","p","p","l","i","c","a","t","i","o","n","s">>,
     minimumExperience |-> Num(2),
     requiredSkills |-> << <<"J","a","v","a","S","c","r","i","p","t">>, <<"R","e","a","c","t">> >>,
     preferredSkills |-> << <<"T","y","p","e","S","c","r","i","p","t">> >>,
     education |-> <<"B","a","c","h","e","l","o","r","'","s"," ","d","e","g","r","e","e"," ","i","n"," ","C","o","m","p","u","t","e","r"," ","S","c","i","e","n","c","e">>]

\* a job description that gives none of the optional columns
TraineeJob ==
    [id |-> <<"j","o","b","-","2">>, title |-> <<"T","r","a","i","n","e","e">>, company |-> <<"S","h","o","p"," ","L","t","d">>,
     description |-> <<"L","e","a","r","n"," ","o","n"," ","t","h","e"," ","j","o","b">>,
     minimumExperience |-> Undef,
     requiredSkills |-> UndefinedArray,
     preferredSkills |-> UndefinedArray,
     education |-> Undefined]

DataJob ==
    [id |-> <<"j","o","b","-","3">>, title |-> <<"D","a","t","a"," ","E","n","g","i","n","e","e","r">>, company |-> <<"D","a","t","a"," ","C","o","r","p">>,
     description |-> <<"B","u","i","l","d"," ","p","i","p","e","l","i","n","e","s">>,
     minimumExperience |-> Num(1),
     requiredSkills |-> << <<"J","a","v","a","S","c","r","i","p","t">> >>,
     preferredSkills |-> <<>>,
     education |-> <<"M","a","s","t","e","r"," ","o","f"," ","S","c","i","e","n","c","e">>]

ExcelJobs == {FrontendJob, TraineeJob, DataJob}

BatchInputs ==
    {[resumeInput |-> r, jobDescriptions |-> j] :
        r \in ResumeInputs, j \in SeqsUpTo(ExcelJobs, MaxJobDescriptions)}

NoHistory == <<>>

InitBatch ==
    /\ profile = defaultProfile
    /\ requirements = NoRequirements
    /\ result = NoResult
    /\ calledAt = 0
    /\ earlier = NoHistory
    /\ now = InitialYear
    /\ input \in BatchInputs
    /\ errors = <<>>
    /\ pending = NoOutcome
    /\ thrown = NoThrow
    /\ pc = "idle"

ScreenResumeAgainstMultipleJobs ==
    /\ pc = "idle"
    /\ LET return(outcome) ==
               /\ pending' = [NoOutcome EXCEPT !.threw = outcome.threw,
                                               !.message = outcome.message]
               /\ result' = IF outcome.threw THEN result
                            ELSE [candidateProfile |-> outcome.value.candidateProfile,
                                  screeningResults |-> outcome.value.screeningResults,
                                  summary |-> outcome.value.summary]
               /\ earlier' = outcome.value.screeningHistory
       IN return(screenResumeAgainstMultipleJobs(input.resumeInput, input.jobDescriptions,
                                                 earlier))
    /\ pc' = "screened"
    /\ UNCHANGED <<profile, requirements, calledAt, now, input, errors, thrown>>

NextBatch == ScreenResumeAgainstMultipleJobs

SpecBatch == InitBatch /\ [][NextBatch]_vars

---------------------------------------------------------------------------
(* Properties of batch screening                                           *)

\* the outcome of parsing the content of the resume, as runR1 does
CanonicalParse == parseResume(get(input.resumeInput, "content"))

\* the batch has returned for a resume whose content can be parsed
ScreenedBatch ==
    /\ pc = "screened"
    /\ ~pending.threw
    /\ ~nullish(input.resumeInput)
    /\ ~CanonicalParse.threw

\* C21: the batch returns as candidateProfile the profile parsed from the
\* content of the resume, the one runR1 evaluates; the result reported for a
\* job is the evaluation of that profile against the requirements converted
\* from the job; passedJobs and failedJobs add up to the number of results
C21_BatchReusesCanonicalProfile ==
    ScreenedBatch =>
        /\ result.candidateProfile = CanonicalParse.value
        /\ \A k \in 1..Len(result.screeningResults) :
               result.screeningResults[k].result =
                   evaluateAgainstCriteria(
                       CanonicalParse.value,
                       convertExcelJobToRequirements(result.screeningResults[k].jobDescription))
        /\ result.summary.passedJobs + result.summary.failedJobs = Len(result.screeningResults)

---------------------------------------------------------------------------
(* SpecValidate: one call of R1Agent.validateJobRequirements               *)

\* R1Agent.validateJobRequirements: the errors it collects
validationErrors(reqs) ==
    LET minimumYears == get(reqs, "minimumYearsOfExperience")
        skillsRequired == get(reqs, "requiredSkills")
        educationRequired == get(reqs, "requiredEducation")
    IN (IF ~truthy(minimumYears) \/ (minimumYears.kind = "number" /\ minimumYears.value < 0)
        THEN << <<"I","n","v","a","l","i","d"," ","m","i","n","i","m","u","m"," ","y","e","a","r","s"," ","o","f"," ","e","x","p","e","r","i","e","n","c","e">> >> ELSE <<>>)
       \o (IF ~truthy(skillsRequired) \/ Len(skillsRequired.value) = 0
           THEN << <<"N","o"," ","r","e","q","u","i","r","e","d"," ","s","k","i","l","l","s"," ","s","p","e","c","i","f","i","e","d">> >> ELSE <<>>)
       \o (IF ~truthy(educationRequired) \/ ~truthy(get(educationRequired, "minimumDegree"))
           THEN << <<"N","o"," ","e","d","u","c","a","t","i","o","n"," ","r","e","q","u","i","r","e","m","e","n","t","s"," ","s","p","e","c","i","f","i","e","d">> >> ELSE <<>>)

validateJobRequirements(reqs) == Len(validationErrors(reqs)) = 0

\* the values a job may hold for the three properties that are validated
ValidatedProperties ==
    { [minimumYearsOfExperience |-> years, requiredSkills |-> skills,
       requiredEducation |-> education] :
      years \in {Num(-1), Num(0), Num(2), Num(5)},
      skills \in {Arr(<<>>), Arr(<< Str(<<"J","a","v","a","S","c","r","i","p","t">>) >>),
                  Arr(<< Str(<<"J","a","v","a","S","c","r","i","p","t">>), Str(<<"R","e","a","c","t">>) >>)},
      education \in {Obj(<<>>),
                     Obj([minimumDegree |-> Str(<<"b","a","c","h","e","l","o","r">>),
                          preferredFields |-> Arr(<< Str(<<"C","o","m","p","u","t","e","r"," ","S","c","i","e","n","c","e">>) >>)]),
                     Obj([minimumDegree |-> Str(<<"h","i","g","h","_","s","c","h","o","o","l">>)])} }

\* jobs that hold all or some of the validated properties
ValidationJobs ==
    { Obj([name \in present |-> properties[name]]) :
        present \in SUBSET {"minimumYearsOfExperience", "requiredSkills", "requiredEducation"},
        properties \in ValidatedProperties }

InitValidate ==
    /\ profile = defaultProfile
    /\ requirements = NoRequirements
    /\ result = NoResult
    /\ calledAt = 0
    /\ earlier = NoCall
    /\ now = InitialYear
    /\ input \in ValidationJobs
    /\ errors = <<>>
    /\ pending = NoOutcome
    /\ thrown = NoThrow
    /\ pc = "idle"

ValidateJobRequirements ==
    /\ pc = "idle"
    /\ pending' = [NoOutcome EXCEPT !.value = validateJobRequirements(input)]
    /\ pc' = "validated"
    /\ UNCHANGED <<profile, requirements, result, calledAt, earlier, now, input, errors, thrown>>

NextValidate == ValidateJobRequirements

SpecValidate == InitValidate /\ [][NextValidate]_vars

---------------------------------------------------------------------------
(* Properties of the validation                                            *)

\* the job holds the property
Holds(name) == name \in DOMAIN input.value

\* C22: validateJobRequirements returns true exactly when the minimum years
\* are a number of 0 or more, requiredSkills is not empty and a minimum degree
\* is given; it returns false for a negative minimum and for an empty
\* requiredSkills list
C22_ValidIffYearsSkillsAndDegree ==
    pc = "validated" =>
        /\ pending.value <=>
               /\ Holds("minimumYearsOfExperience")
               /\ input.value.minimumYearsOfExperience.kind = "number"
               /\ input.value.minimumYearsOfExperience.value >= 0
               /\ Holds("requiredSkills")
               /\ Len(input.value.requiredSkills.value) > 0
               /\ Holds("requiredEducation")
               /\ "minimumDegree" \in DOMAIN input.value.requiredEducation.value
        /\ (Holds("minimumYearsOfExperience") /\ input.value.minimumYearsOfExperience.value < 0)
           => ~pending.value
        /\ (Holds("requiredSkills") /\ input.value.requiredSkills.value = <<>>)
           => ~pending.value

---------------------------------------------------------------------------
(* ExcelProcessor                                                          *)
(*                                                                         *)
(* A workbook is held as whether it has a first sheet and as what          *)
(* sheet_to_json gives for that sheet: its rows, the first of them the      *)
(* headers, each a sequence of cells; a cell is a text, or Undefined when   *)
(* it is empty.                                                            *)

Workbook(jsonData) == [worksheet |-> TRUE, jsonData |-> jsonData]
NoWorksheet == [worksheet |-> FALSE, jsonData |-> <<>>]

\* the field a header is mapped to by the else-if chain, or "none"
headerField(header) ==
    LET normalizedHeader == trim(toLowerCase(header))
        has(word) == includes(normalizedHeader, word)
    IN IF has(<<"t","i","t","l","e">>) \/ has(<<"p","o","s","i","t","i","o","n">>) \/ has(<<"r","o","l","e">>) THEN "title"
       ELSE IF has(<<"c","o","m","p","a","n","y">>) \/ has(<<"o","r","g","a","n","i","z","a","t","i","o","n">>) THEN "company"
       ELSE IF has(<<"d","e","p","a","r","t","m","e","n","t">>) \/ has(<<"t","e","a","m">>) THEN "department"
       ELSE IF has(<<"l","o","c","a","t","i","o","n">>) \/ has(<<"c","i","t","y">>) \/ has(<<"a","d","d","r","e","s","s">>) THEN "location"
       ELSE IF has(<<"d","e","s","c","r","i","p","t","i","o","n">>) \/ has(<<"s","u","m","m","a","r","y">>) THEN "description"
       ELSE IF has(<<"r","e","q","u","i","r","e","m","e","n","t">>) \/ has(<<"q","u","a","l","i","f","i","c","a","t","i","o","n">>) THEN "requirements"
       ELSE IF has(<<"e","x","p","e","r","i","e","n","c","e">>) \/ has(<<"y","e","a","r","s">>) THEN "minimumExperience"
       ELSE IF has(<<"s","k","i","l","l">>) /\ has(<<"r","e","q","u","i","r","e","d">>) THEN "requiredSkills"
       ELSE IF has(<<"s","k","i","l","l">>) /\ has(<<"p","r","e","f","e","r","r","e","d">>) THEN "preferredSkills"
       ELSE IF has(<<"e","d","u","c","a","t","i","o","n">>) \/ has(<<"d","e","g","r","e","e">>) THEN "education"
       ELSE IF has(<<"s","a","l","a","r","y">>) \/ has(<<"c","o","m","p","e","n","s","a","t","i","o","n">>) THEN "salary"
       ELSE IF has(<<"t","y","p","e">>) \/ has(<<"e","m","p","l","o","y","m","e","n","t">>) THEN "employmentType"
       ELSE "none"

\* ExcelProcessor.createColumnMap: the index, from 0, of the last header
\* mapped to each field
createColumnMap(headers) ==
    LET fields == {headerField(headers[k]) : k \in 1..Len(headers)} \ {"none"}
    IN [field \in fields |->
            greatest({k \in 1..Len(headers) : headerField(headers[k]) = field}) - 1]

\* columnMap[field]
column(columnMap, field) ==
    IF field \in DOMAIN columnMap THEN Num(columnMap[field]) ELSE Undef

\* ExcelProcessor.getCellValue
getCellValue(row, index) ==
    IF index = Undef \/ index.value < 0 \/ index.value >= Len(row) THEN <<>>
    ELSE IF falsyText(row[index.value + 1]) THEN <<>>
    ELSE trim(row[index.value + 1])

\* ExcelProcessor.parseExperience: the first run of digits of the cell
parseExperience(row, index) ==
    LET number(value) ==
            LET digits == {k \in 1..Len(value) : value[k] \in DigitSet}
            IN IF value = <<>> \/ digits = {} THEN Undef
               ELSE Num(digitsValue(SubSeq(value, least(digits), Len(value)),
                                    runLength(value, least(digits) - 1, DigitSet, FALSE)))
    IN IF index = Undef THEN Undef ELSE number(getCellValue(row, index))

\* String.prototype.split for a separator that is one character of a class
splitAny(s, separators) ==
    LET cuts == {i \in 1..Len(s) : s[i] \in separators}
        n == Cardinality(cuts)
        cut(k) == IF k = 0 THEN 0
                  ELSE IF k = n + 1 THEN Len(s) + 1
                  ELSE CHOOSE i \in cuts : Cardinality({j \in cuts : j < i}) = k - 1
    IN [k \in 1..(n + 1) |-> SubSeq(s, cut(k - 1) + 1, cut(k) - 1)]

\* ExcelProcessor.parseSkills
parseSkills(row, index) ==
    LET skills(value) ==
            IF value = <<>> THEN UndefinedArray
            ELSE LET parts == splitAny(value, {",", ";"})
                 IN SelectSeq([k \in 1..Len(parts) |-> trim(parts[k])] \o <<>>,
                              LAMBDA skill : Len(skill) > 0)
    IN IF index = Undef THEN UndefinedArray ELSE skills(getCellValue(row, index))

\* ExcelProcessor.generateJobId
generateJobId(title, company, rowNumber) ==
    LET sanitized(text) ==
            toLowerCase(SelectSeq(text, LAMBDA c : c \in UpperSet \cup LowerSet \cup DigitSet))
    IN sanitized(company) \o <<"-">> \o sanitized(title) \o <<"-">> \o numberToString(rowNumber)


\* ExcelProcessor.parseJobDescriptionRow: the job description, in a sequence
\* that is empty when null is returned, and the errors of the processor after
\* the row
parseJobDescriptionRow(row, columnMap, rowNumber, log) ==
    LET title == getCellValue(row, column(columnMap, "title"))
        company == getCellValue(row, column(columnMap, "company"))
        description == getCellValue(row, column(columnMap, "description"))
    IN IF \/ ~truthy(column(columnMap, "title"))
          \/ ~truthy(column(columnMap, "company"))
          \/ ~truthy(column(columnMap, "description"))
       THEN [jobDescription |-> <<>>,
             errors |-> Append(log, <<"R","o","w"," ">> \o numberToString(rowNumber)
                               \o <<":"," ","M","i","s","s","i","n","g"," ","r","e","q","u","i","r","e","d"," ","f","i","e","l","d","s"," ","(","t","i","t","l","e",","," ","c","o","m","p","a","n","y",","," ","o","r"," ","d","e","s","c","r","i","p","t","i","o","n",")">>)]
       ELSE IF title = <<>> \/ company = <<>> \/ description = <<>>
       THEN [jobDescription |-> <<>>,
             errors |-> Append(log, <<"R","o","w"," ">> \o numberToString(rowNumber)
                               \o <<":"," ","M","i","s","s","i","n","g"," ","r","e","q","u","i","r","e","d"," ","f","i","e","l","d"," ","v","a","l","u","e","s">>)]
       ELSE [jobDescription |-> <<
                 [id |-> generateJobId(title, company, rowNumber),
                  title |-> trim(title),
                  company |-> trim(company),
                  description |-> trim(description),
                  requirements |-> getCellValue(row, column(columnMap, "requirements")),
                  department |-> getCellValue(row, column(columnMap, "department")),
                  location |-> getCellValue(row, column(columnMap, "location")),
                  education |-> getCellValue(row, column(columnMap, "education")),
                  salary |-> getCellValue(row, column(columnMap, "salary")),
                  employmentType |-> getCellValue(row, column(columnMap, "employmentType")),
                  minimumExperience |->
                      parseExperience(row, column(columnMap, "minimumExperience")),
                  requiredSkills |-> parseSkills(row, column(columnMap, "requiredSkills")),
                  preferredSkills |-> parseSkills(row, column(columnMap, "preferredSkills"))] >>,
             errors |-> log]

\* the loop of parseJobDescriptions over dataRows[1..n]; row i of the data is
\* row i + 1 of the sheet
RECURSIVE parsedRowsAfter(_, _, _, _)
parsedRowsAfter(dataRows, columnMap, n, log) ==
    IF n = 0 THEN [jobDescriptions |-> <<>>, errors |-> log]
    ELSE LET push(before) ==
                 LET row(parsed) ==
                         [jobDescriptions |->
                              before.jobDescriptions \o parsed.jobDescription,
                          errors |-> parsed.errors]
                 IN row(parseJobDescriptionRow(dataRows[n], columnMap, n + 1, before.errors))
         IN push(parsedRowsAfter(dataRows, columnMap, n - 1, log))

\* ExcelProcessor.parseJobDescriptions
parseJobDescriptions(headers, dataRows, log) ==
    parsedRowsAfter(dataRows, createColumnMap(headers), Len(dataRows), log)

\* the result of a file that cannot be processed
failedProcessing(messages) ==
    [jobDescriptions |-> <<>>, errors |-> messages, totalRows |-> 0, processedRows |-> 0]

\* ExcelProcessor.processExcelFile: this.errors is reset, and the result
\* holds it
processExcelFile(workbook) ==
    IF ~workbook.worksheet
    THEN failedProcessing(<< <<"F","a","i","l","e","d"," ","t","o"," ","p","r","o","c","e","s","s"," ","E","x","c","e","l"," ","f","i","l","e",":"," ","N","o"," ","w","o","r","k","s","h","e","e","t"," ","f","o","u","n","d"," ","i","n"," ","E","x","c","e","l"," ","f","i","l","e">> >>)
    ELSE IF workbook.jsonData = <<>>
    THEN failedProcessing(<< <<"F","a","i","l","e","d"," ","t","o"," ","p","r","o","c","e","s","s"," ","E","x","c","e","l"," ","f","i","l","e",":"," ">>
                             \o cannotRead(<<"u","n","d","e","f","i","n","e","d">>, <<"f","o","r","E","a","c","h">>) >>)
    ELSE LET return(parsed) ==
                 [jobDescriptions |-> parsed.jobDescriptions,
                  errors |-> parsed.errors,
                  totalRows |-> Len(workbook.jsonData) - 1,
                  processedRows |-> Len(parsed.jobDescriptions)]
         IN return(parseJobDescriptions(Head(workbook.jsonData), Tail(workbook.jsonData), <<>>))

\* ExcelProcessor.validateExcelStructure
validateExcelStructure(workbook) ==
    IF ~workbook.worksheet
    THEN [isValid |-> FALSE, errors |-> << <<"N","o"," ","w","o","r","k","s","h","e","e","t"," ","f","o","u","n","d"," ","i","n"," ","E","x","c","e","l"," ","f","i","l","e">> >>]
    ELSE IF workbook.jsonData = <<>> \/ Len(Head(workbook.jsonData)) = 0
    THEN [isValid |-> FALSE, errors |-> << <<"N","o"," ","h","e","a","d","e","r","s"," ","f","o","u","n","d"," ","i","n"," ","E","x","c","e","l"," ","f","i","l","e">> >>]
    ELSE LET missingColumns ==
                 SelectSeq(<<"title", "company", "description">>,
                           LAMBDA col : column(createColumnMap(Head(workbook.jsonData)), col) = Undef)
             named == [k \in 1..Len(missingColumns) |->
                          CASE missingColumns[k] = "title" -> <<"t","i","t","l","e">>
                            [] missingColumns[k] = "company" -> <<"c","o","m","p","a","n","y">>
                            [] missingColumns[k] = "description" -> <<"d","e","s","c","r","i","p","t","i","o","n">>] \o <<>>
         IN IF Len(missingColumns) > 0
            THEN [isValid |-> FALSE,
                  errors |-> << <<"M","i","s","s","i","n","g"," ","r","e","q","u","i","r","e","d"," ","c","o","l","u","m","n","s",":"," ">> \o join(named, <<","," ">>) >>]
            ELSE [isValid |-> TRUE, errors |-> <<>>]

\* R1AgentEnhanced.processExcelFile: the file is processed when its
\* structure is valid
enhancedProcessExcelFile(workbook) ==
    IF ~validateExcelStructure(workbook).isValid
    THEN failedProcessing(validateExcelStructure(workbook).errors)
    ELSE processExcelFile(workbook)

---------------------------------------------------------------------------
(* The Excel processor at work: a workbook is validated and processed       *)

MaxRows == 2

\* the layout of the format documentation, Title in the first column
DocumentedLayout ==
    [headers |-> << <<"T","i","t","l","e">>, <<"C","o","m","p","a","n","y">>, <<"D","e","s","c","r","i","p","t","i","o","n">>, <<"R","e","q","u","i","r","e","m","e","n","t","s">> >>,
     rows |-> { << <<"S","e","n","i","o","r"," ","D","e","v","e","l","o","p","e","r">>, <<"T","e","c","h"," ","C","o","r","p">>, <<"W","e"," ","a","r","e"," ","l","o","o","k","i","n","g">>, <<"5","+"," ","y","e","a","r","s">> >>,
                << <<"A","n","a","l","y","s","t">>, Undefined, <<"R","e","p","o","r","t","s">> >>,
                << <<"I","n","t","e","r","n">> >> }]

\* a reference number in the first column, and other names of the columns
NumberedLayout ==
    [headers |-> << <<"R","e","f">>, <<"P","o","s","i","t","i","o","n">>, <<"O","r","g","a","n","i","z","a","t","i","o","n">>, <<"S","u","m","m","a","r","y">>,
                    <<"R","e","q","u","i","r","e","d"," ","S","k","i","l","l","s">>, <<"Y","e","a","r","s">> >>,
     rows |-> { << <<"7">>, <<"E","n","g","i","n","e","e","r">>, <<"A","c","m","e">>, <<"S","h","i","p","s"," ","c","o","d","e">>, <<"J","S",","," ","R","e","a","c","t",";"," ","N","o","d","e">>, <<"3","-","5"," ","y","e","a","r","s">> >>,
                << <<"8">>, <<"D","e","s","i","g","n","e","r">>, <<"A","c","m","e">>, <<" ">>, <<"F","i","g","m","a">> >>,
                << <<"9">>, <<"T","e","s","t","e","r">>, <<"A","c","m","e"," ","L","t","d",".">>, <<"F","i","n","d","s"," ","b","u","g","s">>, Undefined, <<"n","o","n","e">> >> }]

\* the company in the first column
CompanyFirstLayout ==
    [headers |-> << <<"C","o","m","p","a","n","y">>, <<"J","o","b"," ","T","i","t","l","e">>, <<"D","e","s","c","r","i","p","t","i","o","n">> >>,
     rows |-> { << <<"A","c","m","e">>, <<"E","n","g","i","n","e","e","r">>, <<"S","h","i","p","s"," ","c","o","d","e">> >>,
                << <<"A","c","m","e">>, <<" ">>, <<"S","h","i","p","s"," ","c","o","d","e">> >>,
                <<>> }]

\* no company column
IncompleteLayout ==
    [headers |-> << <<"T","i","t","l","e">>, <<"D","e","s","c","r","i","p","t","i","o","n">> >>,
     rows |-> { << <<"E","n","g","i","n","e","e","r">>, <<"S","h","i","p","s"," ","c","o","d","e">> >> }]

Layouts == {DocumentedLayout, NumberedLayout, CompanyFirstLayout, IncompleteLayout}

Workbooks ==
    {NoWorksheet, Workbook(<<>>), Workbook(<< <<>> >>)}
    \cup UNION {{Workbook(<<layout.headers>> \o dataRows) : dataRows \in SeqsUpTo(layout.rows, MaxRows)}
                : layout \in Layouts}

InitExcel ==
    /\ profile = defaultProfile
    /\ requirements = NoRequirements
    /\ result = NoResult
    /\ calledAt = 0
    /\ earlier = NoCall
    /\ now = InitialYear
    /\ input \in Workbooks
    /\ errors = <<>>
    /\ pending = NoOutcome
    /\ thrown = NoThrow
    /\ pc = "idle"

\* excelProcessor.validateExcelStructure(buffer)
ValidateExcelStructure ==
    /\ pc = "idle"
    /\ pending' = [NoOutcome EXCEPT !.value = validateExcelStructure(input)]
    /\ pc' = "validated"
    /\ UNCHANGED <<profile, requirements, result, calledAt, earlier, now, input, errors, thrown>>

\* excelProcessor.processExcelFile(buffer)
ProcessExcelFile ==
    /\ pc \in {"idle", "validated"}
    /\ LET return(processed) ==
               /\ result' = processed
               /\ errors' = processed.errors
       IN return(processExcelFile(input))
    /\ pc' = "processed"
    /\ UNCHANGED <<profile, requirements, calledAt, earlier, now, input, pending, thrown>>

\* agent.processExcelFile(buffer) of R1AgentEnhanced
EnhancedProcessExcelFile ==
    /\ pc \in {"idle", "validated"}
    /\ LET return(processed) ==
               /\ result' = processed
               /\ errors' = IF validateExcelStructure(input).isValid
                            THEN processed.errors ELSE errors
       IN return(enhancedProcessExcelFile(input))
    /\ pc' = "screened"
    /\ UNCHANGED <<profile, requirements, calledAt, earlier, now, input, pending, thrown>>

NextExcel == ValidateExcelStructure \/ ProcessExcelFile \/ EnhancedProcessExcelFile

SpecExcel == InitExcel /\ [][NextExcel]_vars

---------------------------------------------------------------------------
(* Properties of the Excel processor                                       *)

\* the data rows of the workbook whose title, company and description cells
\* are not empty
CompleteRows ==
    {n \in 2..Len(input.jsonData) :
        \A field \in {"title", "company", "description"} :
            getCellValue(input.jsonData[n],
                         column(createColumnMap(Head(input.jsonData)), field)) # <<>>}

ProcessedValidWorkbook ==
    /\ pc \in {"processed", "screened"}
    /\ validateExcelStructure(input).isValid

\* C23: for a workbook that validateExcelStructure accepts, processExcelFile
\* returns one job description for every data row whose title, company and
\* description cells are not empty, and reports no 'Missing required fields'
\* error
C23_EveryCompleteRowIsProcessed ==
    ProcessedValidWorkbook =>
        /\ result.processedRows = Cardinality(CompleteRows)
        /\ Len(result.jobDescriptions) = Cardinality(CompleteRows)
        /\ \A n \in CompleteRows : \A k \in 1..Len(result.errors) :
               ~includes(result.errors[k],
                         <<"R","o","w"," ">> \o numberToString(n) \o <<":"," ","M","i","s","s","i","n","g"," ","r","e","q","u","i","r","e","d"," ","f","i","e","l","d","s">>)

---------------------------------------------------------------------------
(* Properties of a candidate short of experience                           *)

\* fewer than half of the master vocabulary is among the candidate's skills
UnderHalfOfVocabulary == 2 * VocabularyMatches < Len(allSkills)

ShortOfExperience ==
    /\ returned /\ pc = "done"
    /\ TotalYears < requirements.minimumYearsOfExperience
    /\ UnderHalfOfVocabulary

\* C24: a candidate whose total years are below the minimum and who matches
\* fewer than half of the master vocabulary fails, and missingRequirements
\* holds 'Requires N+ years experience' for the minimum N
C24_ShortExperienceFails ==
    ShortOfExperience =>
        /\ result.screeningResult = "fail"
        /\ Missing(YearsMissing)

\* no experience against a minimum of 3 years, every other category passing
C24_Witness ==
    /\ ShortOfExperience
    /\ TotalYears = 0 /\ requirements.minimumYearsOfExperience = 3
    /\ HasFixedListSkill /\ MeetsDegree /\ HasRelevantField /\ MeetsCertifications
    /\ result.confidenceScore = 55
    /\ result.screeningResult = "fail"
    /\ Missing(<<"R","e","q","u","i","r","e","s"," ","3","+"," ","y","e","a","r","s"," ","e","x","p","e","r","i","e","n","c","e">>)

---------------------------------------------------------------------------
(* Section extraction on its own: extractSection is applied to a text       *)

MaxLines == 3

SectionLines ==
    { <<"S","k","i","l","l","s">>, <<"J","a","v","a","S","c","r","i","p","t",","," ","S","Q","L">>, <<"S","o","f","t"," ","s","k","i","l","l","s",":"," ","w","r","i","t","i","n","g">>,
      <<"E","D","U","C","A","T","I","O","N">>, <<"A","c","a","d","e","m","i","c"," ","r","e","c","o","r","d">>, <<"B","S","c"," ","2","0","1","9">> }

SectionKeywords ==
    { << <<"e","d","u","c","a","t","i","o","n">>, <<"a","c","a","d","e","m","i","c">>, <<"d","e","g","r","e","e">> >>,
      << <<"s","k","i","l","l","s">>, <<"t","e","c","h","n","i","c","a","l"," ","s","k","i","l","l","s">>, <<"c","o","m","p","e","t","e","n","c","i","e","s">> >> }

SectionInputs ==
    { [text |-> join(lines, <<"\n">>), keywords |-> keywords] :
        lines \in SeqsUpTo(SectionLines, MaxLines), keywords \in SectionKeywords }

InitSection ==
    /\ profile = defaultProfile
    /\ requirements = NoRequirements
    /\ result = NoResult
    /\ calledAt = 0
    /\ earlier = NoCall
    /\ now = InitialYear
    /\ input \in SectionInputs
    /\ errors = <<>>
    /\ pending = NoOutcome
    /\ thrown = NoThrow
    /\ pc = "idle"

\* extractSection(text, keywords)
ExtractSection ==
    /\ pc = "idle"
    /\ pending' = [NoOutcome EXCEPT !.value = extractSection(input.text, input.keywords)]
    /\ pc' = "extracted"
    /\ UNCHANGED <<profile, requirements, result, calledAt, earlier, now, input, errors, thrown>>

NextSection == ExtractSection

SpecSection == InitSection /\ [][NextSection]_vars

---------------------------------------------------------------------------
(* Properties of the section extraction                                    *)

LinesOfText == split(input.text, "\n")

\* the lines that hold one of the opening keywords of the section
OpeningLines ==
    {k \in 1..Len(LinesOfText) :
        \E w \in 1..Len(input.keywords) :
            includes(toLowerCase(LinesOfText[k]), input.keywords[w])}

\* the lines that hold one of the four section words
HeadingLines ==
    {k \in 1..Len(LinesOfText) :
        \E word \in { <<"e","x","p","e","r","i","e","n","c","e">>, <<"e","d","u","c","a","t","i","o","n">>, <<"s","k","i","l","l","s">>, <<"c","e","r","t","i","f","i","c","a","t","i","o","n","s">> } :
            includes(toLowerCase(LinesOfText[k]), word)}

\* the lines from the one after the opening line to the one before the next
\* line with a section word
LinesUntilNextHeading ==
    LET opening == least(OpeningLines)
        closing == {k \in HeadingLines : k > opening}
        last == IF closing = {} THEN Len(LinesOfText) ELSE least(closing) - 1
    IN SubSeq(LinesOfText, opening + 1, last)

---------------------------------------------------------------------------
(* Properties of the order of the entries                                  *)

\* the category a match reason belongs to: 1 experience, 2 skills,
\* 3 education, 4 certifications, 0 none of them
CategoryOfReason(entry) ==
    IF includes(entry, <<" ","y","e","a","r","s"," ","o","f"," ","e","x","p","e","r","i","e","n","c","e">>) THEN 1
    ELSE IF entry = SkillsReason THEN 2
    ELSE IF entry = EducationReason THEN 3
    ELSE IF entry = CertificationReason THEN 4
    ELSE 0

\* the category a missing requirement belongs to
CategoryOfMissing(entry) ==
    IF isMissingSkillsEntry(entry) THEN 2
    ELSE IF includes(entry, <<"+"," ","y","e","a","r","s"," ","e","x","p","e","r","i","e","n","c","e">>) THEN 1
    ELSE IF startsWith(entry, <<"R","e","q","u","i","r","e","s"," ">>) /\ includes(entry, <<" ","d","e","g","r","e","e">>) THEN 3
    ELSE IF entry = CertificationMissing THEN 4
    ELSE 0

ReasonCategories == [k \in 1..Len(result.matchReasons) |-> CategoryOfReason(result.matchReasons[k])]
MissingCategories ==
    [k \in 1..Len(result.missingRequirements) |-> CategoryOfMissing(result.missingRequirements[k])]

\* strictly ascending categories: the fixed order, and no category twice
InCategoryOrder(categories) ==
    /\ \A k \in 1..Len(categories) : categories[k] \in 1..4
    /\ \A k \in 1..(Len(categories) - 1) : categories[k] < categories[k + 1]

\* C26: each of the four categories gives at most one entry, never one to both
\* lists, and both lists are in the order experience, skills, education,
\* certifications; when experience and skills both fail the 'Missing required
\* skills' entry is the second missing requirement
C26_EntriesFollowCategoryOrder ==
    (returned /\ pc = "done") =>
        /\ InCategoryOrder(ReasonCategories)
        /\ InCategoryOrder(MissingCategories)
        /\ \A i \in 1..Len(ReasonCategories) : \A j \in 1..Len(MissingCategories) :
               ReasonCategories[i] # MissingCategories[j]
        /\ (~MeetsMinimumYears /\ ~HasFixedListSkill) =>
               isMissingSkillsEntry(result.missingRequirements[2])

\* experience and skills fail, education and certifications pass
C26_Witness ==
    /\ returned /\ pc = "done"
    /\ ~MeetsMinimumYears /\ ~HasFixedListSkill
    /\ MissingCategories = <<1, 2>>
    /\ ReasonCategories = <<3, 4>>
    /\ result.missingRequirements[1] = YearsMissing
    /\ isMissingSkillsEntry(result.missingRequirements[2])

---------------------------------------------------------------------------
(* Properties of the 'Missing required skills' entry                       *)

\* C27: a 'Missing required skills: ' entry names at least one skill: it is
\* given only when one of requirements.requiredSkills is not among the
\* candidate's skills
C27_MissingSkillsEntryNamesASkill ==
    (returned /\ pc = "done") =>
        \A k \in 1..Len(result.missingRequirements) :
            isMissingSkillsEntry(result.missingRequirements[k]) =>
                /\ Len(result.missingRequirements[k]) > Len(<<"M","i","s","s","i","n","g"," ","r","e","q","u","i","r","e","d"," ","s","k","i","l","l","s",":"," ">>)
                /\ Len(AbsentRequiredSkills) > 0

---------------------------------------------------------------------------
(* Properties of a growing profile                                         *)

\* an entry between two positions, its duration 0
UnpaidJob == [DesignerJob EXCEPT !.duration = 0]

\* the profile with one more entry in one of its lists, at the end or at the
\* start of the list
GrownProfiles ==
    LET with(list, entry) == {Append(list, entry), <<entry>> \o list}
    IN UNION {
         {[profile EXCEPT !.skills = grown] :
             grown \in UNION {with(profile.skills, Skill(name)) :
                                 name \in { <<"R","e","a","c","t">>, <<"K","o","t","l","i","n">>, <<"F","i","g","m","a">> }}},
         {[profile EXCEPT !.certifications = grown] :
             grown \in with(profile.certifications, AwsCertification)},
         {[profile EXCEPT !.education = grown] :
             grown \in UNION {with(profile.education, degree) :
                                 degree \in {BachelorCS, MasterSE, DiplomaPhysics}}},
         {[profile EXCEPT !.workExperience = grown] :
             grown \in UNION {with(profile.workExperience, job) :
                                 job \in {SoftwareEngineerJob, DesignerJob, UnpaidJob}}} }

NotBelow(after, before) ==
    /\ after.confidenceScore >= before.confidenceScore
    /\ before.screeningResult = "pass" => after.screeningResult = "pass"

\* C28: for the same requirements, a profile with one more skill,
\* certification, education entry or work entry of a duration of 0 or more has
\* no lower confidence, and passes when the profile passed
C28_ConfidenceIsMonotone ==
    (returned /\ pc = "done") =>
        \A grown \in GrownProfiles :
            NotBelow(evaluateAgainstCriteria(grown, requirements), result)

\* one more skill turns a 'fail' into a 'pass', and an entry of no duration
\* leaves the confidence as it was
C28_Witness ==
    /\ returned /\ pc = "done"
    /\ result.screeningResult = "fail"
    /\ evaluateAgainstCriteria([profile EXCEPT !.skills = Append(@, Skill(<<"R","e","a","c","t">>))],
                               requirements).screeningResult = "pass"
    /\ evaluateAgainstCriteria([profile EXCEPT !.workExperience = Append(@, UnpaidJob)],
                               requirements).confidenceScore = result.confidenceScore

---------------------------------------------------------------------------
(* Properties of the error log over the calls of an agent                  *)

\* R1Agent.getErrors
getErrors == errors

\* R1Agent.getAgentStatus: the fields that depend on the log
getAgentStatus ==
    [errorCount |-> Len(errors),
     lastError |-> IF Len(errors) > 0 THEN Obj(errors[Len(errors)]) ELSE NullValue]

\* the log is that of a call that succeeded, or that of a call a stage of
\* which has thrown
LogOfLastCall ==
    IF result.errorMessages = <<>>
    THEN /\ thrown.stage = "none"
         /\ getErrors = <<>>
         /\ getAgentStatus.errorCount = 0
    ELSE /\ thrown.stage \in {"parsing", "extraction", "evaluation"}
         /\ Len(getErrors) = 2
         /\ getErrors[1].type = thrown.stage
         /\ startsWith(getErrors[1].message, StagePrefix(thrown.stage))
         /\ getErrors[2].type = "evaluation"
         /\ getErrors[2].message = <<"R","1"," ","s","c","r","e","e","n","i","n","g"," ","f","a","i","l","e","d",":"," ">> \o getErrors[1].message
         /\ getAgentStatus.errorCount = 2

\* a call returns, and nothing has cleared the log while it was awaiting
RunR1Returns ==
    /\ pc = "awaiting" /\ pc' = "returned"
    /\ errors = pending.errors

\* C29: when a call of runR1 returns, whatever calls came before it on the
\* agent, the log is empty and errorCount is 0 if the call succeeded, and
\* otherwise holds the error of the failing stage followed by the 'evaluation'
\* entry 'R1 screening failed', and errorCount is 2
C29_LogReflectsLastCall == [][RunR1Returns => LogOfLastCall']_vars

\* the parser has thrown: the log holds its error and that of runR1
C29_Witness ==
    /\ pc = "returned"
    /\ thrown.stage = "parsing"
    /\ Len(getErrors) = 2
    /\ getErrors[1].type = "parsing"
    /\ getErrors[2].type = "evaluation"
    /\ startsWith(getErrors[2].message, <<"R","1"," ","s","c","r","e","e","n","i","n","g"," ","f","a","i","l","e","d",":"," ","F","a","i","l","e","d"," ","t","o"," ","p","a","r","s","e"," ","r","e","s","u","m","e",":"," ">>)
    /\ getAgentStatus.errorCount = 2

---------------------------------------------------------------------------
(* ChatbotService                                                          *)
(*                                                                         *)
(* A session holds its messages, the candidate, the job and the screening   *)
(* result; a message holds its role and its content. The random ids of the  *)
(* messages and the dates are left out. The content of a user message is a  *)
(* text slot, Undefined when the caller gives no text.                     *)

ChatMessage(role, content) == [role |-> role, content |-> content]

\* ChatbotService.generateSessionId, for the time given
generateSessionId(candidateName, jobId, timestamp) ==
    toLowerCase(SelectSeq(candidateName, LAMBDA c : c \in UpperSet \cup LowerSet \cup DigitSet))
    \o <<"-">> \o jobId \o <<"-">> \o numberToString(timestamp)

\* the session createSession stores
newSession(candidateProfile, jobDescription, screeningResult, timestamp) ==
    [id |-> generateSessionId(candidateProfile.fullName, jobDescription.id, timestamp),
     messages |-> <<>>,
     candidateProfile |-> candidateProfile,
     jobDescription |-> jobDescription,
     screeningResult |-> screeningResult]

\* ChatbotService.buildLLMContext: chatHistory is the array of the session
\* itself, so the context shows the messages the session holds when it is read
buildLLMContext(session) ==
    [candidateProfile |-> session.candidateProfile,
     jobDescription |-> session.jobDescription,
     screeningResult |-> session.screeningResult,
     chatHistory |-> session.messages]

\* String.prototype.toUpperCase of a screening result
decisionInCapitals(screeningResult) ==
    IF screeningResult = "pass" THEN <<"P","A","S","S">> ELSE <<"F","A","I","L">>

\* the names of the first n skills, joined
firstSkillNames(skills, n) ==
    join([k \in 1..(IF Len(skills) < n THEN Len(skills) ELSE n) |-> skills[k].name] \o <<>>,
         <<","," ">>)

\* `${workExperience[k]?.title}` and the like: the text of a field of an entry,
\* 'undefined' when there is no such entry or the field is undefined
entryText(entries, k, field) ==
    IF k > Len(entries) THEN <<"u","n","d","e","f","i","n","e","d">>
    ELSE IF field = "duration" THEN numberToString(entries[k].duration)
    ELSE IF entries[k][field] = Undefined THEN <<"u","n","d","e","f","i","n","e","d">>
    ELSE entries[k][field]

\* the answer to a question with 'why' and 'pass'
passResponse(context) ==
    [message |->
         <<"T","h","e"," ","c","a","n","d","i","d","a","t","e"," ","w","a","s"," ","s","c","r","e","e","n","e","d"," ","a","s"," ","P","A","S","S"," ","b","e","c","a","u","s","e"," ","t","h","e","y"," ","m","e","e","t"," ","t","h","e"," ","k","e","y"," ","r","e","q","u","i","r","e","m","e","n","t","s"," ","f","o","r"," ","t","h","e"," ">>
         \o context.jobDescription.title
         \o <<" ","p","o","s","i","t","i","o","n","."," ","T","h","e","y"," ","h","a","v","e"," ">>
         \o numberToString(Len(context.candidateProfile.workExperience))
         \o <<" ","y","e","a","r","s"," ","o","f"," ","r","e","l","e","v","a","n","t"," ","e","x","p","e","r","i","e","n","c","e"," ","a","n","d"," ","p","o","s","s","e","s","s"," ","t","h","e"," ","r","e","q","u","i","r","e","d"," ","s","k","i","l","l","s",":"," ">>
         \o firstSkillNames(context.candidateProfile.skills, 3)
         \o <<"."," ","T","h","e","i","r"," ","e","d","u","c","a","t","i","o","n"," ","b","a","c","k","g","r","o","u","n","d"," ","i","n"," ">>
         \o (IF Len(context.candidateProfile.education) = 0
                \/ falsyText(context.candidateProfile.education[1].field)
             THEN <<"C","o","m","p","u","t","e","r"," ","S","c","i","e","n","c","e">>
             ELSE context.candidateProfile.education[1].field)
         \o <<" ","a","l","i","g","n","s"," ","w","e","l","l"," ","w","i","t","h"," ","t","h","e"," ","r","o","l","e"," ","r","e","q","u","i","r","e","m","e","n","t","s",".">>,
     confidence |-> 85,
     reasoning |-> <<"C","a","n","d","i","d","a","t","e"," ","m","e","e","t","s"," ","m","i","n","i","m","u","m"," ","r","e","q","u","i","r","e","m","e","n","t","s"," ","a","n","d"," ","h","a","s"," ","r","e","l","e","v","a","n","t"," ","s","k","i","l","l","s">>,
     suggestedQuestions |->
         << <<"W","h","a","t"," ","s","p","e","c","i","f","i","c"," ","s","k","i","l","l","s"," ","d","o","e","s"," ","t","h","e"," ","c","a","n","d","i","d","a","t","e"," ","h","a","v","e","?">>,
            <<"H","o","w"," ","d","o","e","s"," ","t","h","e","i","r"," ","e","x","p","e","r","i","e","n","c","e"," ","m","a","t","c","h"," ","t","h","e"," ","j","o","b"," ","r","e","q","u","i","r","e","m","e","n","t","s","?">>,
            <<"W","h","a","t"," ","a","r","e"," ","t","h","e","i","r"," ","s","t","r","o","n","g","e","s","t"," ","q","u","a","l","i","f","i","c","a","t","i","o","n","s","?">> >>]

\* the answer to a question with 'why' and 'fail'
failResponse(context) ==
    [message |->
         <<"T","h","e"," ","c","a","n","d","i","d","a","t","e"," ","w","a","s"," ","s","c","r","e","e","n","e","d"," ","a","s"," ","F","A","I","L"," ","b","e","c","a","u","s","e"," ","t","h","e","y"," ","d","o","n","'","t"," ","m","e","e","t"," ","s","o","m","e"," ","c","r","i","t","i","c","a","l"," ","r","e","q","u","i","r","e","m","e","n","t","s"," ","f","o","r"," ","t","h","e"," ">>
         \o context.jobDescription.title
         \o <<" ","p","o","s","i","t","i","o","n","."," ","S","p","e","c","i","f","i","c","a","l","l","y",","," ","t","h","e","y"," ","a","r","e"," ","m","i","s","s","i","n","g"," ">>
         \o numberToString(Len(context.screeningResult.missingRequirements))
         \o <<" ","k","e","y"," ","r","e","q","u","i","r","e","m","e","n","t","s",":"," ">>
         \o join(context.screeningResult.missingRequirements, <<","," ">>)
         \o <<"."," ","W","h","i","l","e"," ","t","h","e","y"," ","h","a","v","e"," ","g","o","o","d"," ","e","x","p","e","r","i","e","n","c","e"," ","i","n"," ">>
         \o firstSkillNames(context.candidateProfile.skills, 2)
         \o <<","," ","t","h","e"," ","r","o","l","e"," ","r","e","q","u","i","r","e","s"," ","a","d","d","i","t","i","o","n","a","l"," ","q","u","a","l","i","f","i","c","a","t","i","o","n","s"," ","t","h","a","t"," ","t","h","e"," ","c","a","n","d","i","d","a","t","e"," ","d","o","e","s","n","'","t"," ","c","u","r","r","e","n","t","l","y"," ","p","o","s","s","e","s","s",".">>,
     confidence |-> 80,
     reasoning |-> <<"C","a","n","d","i","d","a","t","e"," ","l","a","c","k","s"," ","r","e","q","u","i","r","e","d"," ","q","u","a","l","i","f","i","c","a","t","i","o","n","s"," ","o","r"," ","e","x","p","e","r","i","e","n","c","e">>,
     suggestedQuestions |->
         << <<"W","h","a","t"," ","s","p","e","c","i","f","i","c"," ","r","e","q","u","i","r","e","m","e","n","t","s"," ","a","r","e"," ","m","i","s","s","i","n","g","?">>,
            <<"W","h","a","t"," ","s","k","i","l","l","s"," ","d","o","e","s"," ","t","h","e"," ","c","a","n","d","i","d","a","t","e"," ","h","a","v","e","?">>,
            <<"C","o","u","l","d"," ","t","h","i","s"," ","c","a","n","d","i","d","a","t","e"," ","b","e"," ","c","o","n","s","i","d","e","r","e","d"," ","f","o","r"," ","a"," ","d","i","f","f","e","r","e","n","t"," ","r","o","l","e","?">> >>]

\* the answer to a question with 'skill'
skillsResponse(context) ==
    [message |->
         <<"T","h","e"," ","c","a","n","d","i","d","a","t","e"," ","h","a","s"," ","t","h","e"," ","f","o","l","l","o","w","i","n","g"," ","s","k","i","l","l","s",":"," ">>
         \o join([k \in 1..Len(context.candidateProfile.skills) |->
                     context.candidateProfile.skills[k].name \o <<" ","(">>
                     \o context.candidateProfile.skills[k].category \o <<")">>] \o <<>>, <<","," ">>)
         \o <<"."," ","T","h","e","y"," ","h","a","v","e"," ">>
         \o numberToString(Len(context.candidateProfile.workExperience))
         \o <<" ","y","e","a","r","s"," ","o","f"," ","p","r","o","f","e","s","s","i","o","n","a","l"," ","e","x","p","e","r","i","e","n","c","e",","," ","w","i","t","h"," ","t","h","e","i","r"," ","m","o","s","t"," ","r","e","c","e","n","t"," ","r","o","l","e"," ","a","s"," ">>
         \o entryText(context.candidateProfile.workExperience, 1, "title")
         \o <<" ","a","t"," ">>
         \o entryText(context.candidateProfile.workExperience, 1, "company")
         \o <<".">>,
     confidence |-> 90,
     reasoning |-> <<"S","k","i","l","l","s"," ","e","x","t","r","a","c","t","e","d"," ","f","r","o","m"," ","r","e","s","u","m","e"," ","a","n","d"," ","w","o","r","k"," ","e","x","p","e","r","i","e","n","c","e">>,
     suggestedQuestions |->
         << <<"H","o","w"," ","d","o"," ","t","h","e","s","e"," ","s","k","i","l","l","s"," ","m","a","t","c","h"," ","t","h","e"," ","j","o","b"," ","r","e","q","u","i","r","e","m","e","n","t","s","?">>,
            <<"W","h","a","t"," ","i","s"," ","t","h","e"," ","c","a","n","d","i","d","a","t","e","'","s"," ","e","x","p","e","r","i","e","n","c","e"," ","l","e","v","e","l","?">>,
            <<"W","h","a","t"," ","a","r","e"," ","t","h","e","i","r"," ","s","t","r","o","n","g","e","s","t"," ","t","e","c","h","n","i","c","a","l"," ","s","k","i","l","l","s","?">> >>]

\* the answer to a question with 'experience'
experienceResponse(context) ==
    [message |->
         <<"T","h","e"," ","c","a","n","d","i","d","a","t","e"," ","h","a","s"," ">>
         \o numberToString(Len(context.candidateProfile.workExperience))
         \o <<" ","p","o","s","i","t","i","o","n","s"," ","i","n"," ","t","h","e","i","r"," ","w","o","r","k"," ","h","i","s","t","o","r","y","."," ","T","h","e","i","r"," ","m","o","s","t"," ","r","e","c","e","n","t"," ","e","x","p","e","r","i","e","n","c","e"," ","i","s"," ","a","s"," ">>
         \o entryText(context.candidateProfile.workExperience, 1, "title")
         \o <<" ","a","t"," ">>
         \o entryText(context.candidateProfile.workExperience, 1, "company")
         \o <<" ","f","o","r"," ">>
         \o entryText(context.candidateProfile.workExperience, 1, "duration")
         \o <<" ","m","o","n","t","h","s","."," ","T","h","e","y"," ","a","l","s","o"," ","w","o","r","k","e","d"," ","a","s"," ">>
         \o entryText(context.candidateProfile.workExperience, 2, "title")
         \o <<" ","a","t"," ">>
         \o entryText(context.candidateProfile.workExperience, 2, "company")
         \o <<" ","f","o","r"," ">>
         \o entryText(context.candidateProfile.workExperience, 2, "duration")
         \o <<" ","m","o","n","t","h","s",".">>,
     confidence |-> 88,
     reasoning |-> <<"W","o","r","k"," ","e","x","p","e","r","i","e","n","c","e"," ","e","x","t","r","a","c","t","e","d"," ","f","r","o","m"," ","r","e","s","u","m","e">>,
     suggestedQuestions |->
         << <<"H","o","w"," ","d","o","e","s"," ","t","h","i","s"," ","e","x","p","e","r","i","e","n","c","e"," ","m","a","t","c","h"," ","t","h","e"," ","j","o","b"," ","r","e","q","u","i","r","e","m","e","n","t","s","?">>,
            <<"W","h","a","t"," ","t","e","c","h","n","o","l","o","g","i","e","s"," ","d","i","d"," ","t","h","e","y"," ","u","s","e"," ","i","n"," ","t","h","e","s","e"," ","r","o","l","e","s","?">>,
            <<"W","h","a","t"," ","i","s"," ","t","h","e","i","r"," ","t","o","t","a","l"," ","y","e","a","r","s"," ","o","f"," ","e","x","p","e","r","i","e","n","c","e","?">> >>]

\* the answer to any other question
generalResponse(context) ==
    [message |->
         <<"I"," ","c","a","n"," ","h","e","l","p"," ","y","o","u"," ","u","n","d","e","r","s","t","a","n","d"," ","t","h","e"," ","s","c","r","e","e","n","i","n","g"," ","d","e","c","i","s","i","o","n"," ","f","o","r"," ">>
         \o context.candidateProfile.fullName
         \o <<" ","f","o","r"," ","t","h","e"," ">> \o context.jobDescription.title
         \o <<" ","p","o","s","i","t","i","o","n"," ","a","t"," ">> \o context.jobDescription.company
         \o <<"."," ","T","h","e"," ","c","a","n","d","i","d","a","t","e"," ","w","a","s"," ","s","c","r","e","e","n","e","d"," ","a","s"," ">>
         \o decisionInCapitals(context.screeningResult.screeningResult)
         \o <<" ","w","i","t","h"," ">> \o numberToString(context.screeningResult.confidenceScore)
         \o <<"%"," ","c","o","n","f","i","d","e","n","c","e","."," ">>
         \o (IF context.screeningResult.screeningResult = "pass"
             THEN <<"T","h","e","y"," ","m","e","e","t"," ","t","h","e"," ","k","e","y"," ","r","e","q","u","i","r","e","m","e","n","t","s"," ","f","o","r"," ","t","h","i","s"," ","r","o","l","e",".">>
             ELSE <<"T","h","e","y"," ","d","o","n","'","t"," ","m","e","e","t"," ","s","o","m","e"," ","c","r","i","t","i","c","a","l"," ","r","e","q","u","i","r","e","m","e","n","t","s",".">>),
     confidence |-> 75,
     reasoning |-> <<"G","e","n","e","r","a","l"," ","s","c","r","e","e","n","i","n","g"," ","d","e","c","i","s","i","o","n"," ","e","x","p","l","a","n","a","t","i","o","n">>,
     suggestedQuestions |->
         << <<"W","h","y"," ","d","i","d"," ","t","h","e"," ","c","a","n","d","i","d","a","t","e"," ","p","a","s","s","/","f","a","i","l","?">>,
            <<"W","h","a","t"," ","s","k","i","l","l","s"," ","d","o","e","s"," ","t","h","e"," ","c","a","n","d","i","d","a","t","e"," ","h","a","v","e","?">>,
            <<"W","h","a","t"," ","a","r","e"," ","t","h","e"," ","m","i","s","s","i","n","g"," ","r","e","q","u","i","r","e","m","e","n","t","s","?">>,
            <<"H","o","w"," ","d","o","e","s"," ","t","h","e","i","r"," ","e","x","p","e","r","i","e","n","c","e"," ","m","a","t","c","h"," ","t","h","e"," ","j","o","b","?">> >>]

\* the answer of generateResponse when the mock has thrown
unavailableResponse ==
    [message |-> <<"I"," ","a","p","o","l","o","g","i","z","e",","," ","b","u","t"," ","I","'","m"," ","h","a","v","i","n","g"," ","t","r","o","u","b","l","e"," ","p","r","o","c","e","s","s","i","n","g"," ","y","o","u","r"," ","q","u","e","s","t","i","o","n"," ","r","i","g","h","t"," ","n","o","w","."," ","P","l","e","a","s","e"," ","t","r","y"," ","a","g","a","i","n"," ","l","a","t","e","r",".">>,
     confidence |-> 10,
     reasoning |-> <<"L","L","M"," ","s","e","r","v","i","c","e"," ","u","n","a","v","a","i","l","a","b","l","e">>,
     suggestedQuestions |->
         << <<"W","h","y"," ","w","a","s"," ","t","h","i","s"," ","c","a","n","d","i","d","a","t","e"," ","s","c","r","e","e","n","e","d"," ","a","s"," ","p","a","s","s","/","f","a","i","l","?">>,
            <<"W","h","a","t"," ","s","k","i","l","l","s"," ","d","o","e","s"," ","t","h","e"," ","c","a","n","d","i","d","a","t","e"," ","h","a","v","e","?">>,
            <<"W","h","a","t"," ","a","r","e"," ","t","h","e"," ","m","i","s","s","i","n","g"," ","r","e","q","u","i","r","e","m","e","n","t","s","?">> >>]

\* ChatbotService.mockLLMResponse after its timer: the answer is chosen by
\* the content of the last message of the chat history, whoever wrote it
mockLLMResponse(context) ==
    LET answer(userMessage) ==
            IF includes(userMessage, <<"w","h","y">>) /\ includes(userMessage, <<"p","a","s","s">>)
            THEN passResponse(context)
            ELSE IF includes(userMessage, <<"w","h","y">>) /\ includes(userMessage, <<"f","a","i","l">>)
            THEN failResponse(context)
            ELSE IF includes(userMessage, <<"s","k","i","l","l">>) THEN skillsResponse(context)
            ELSE IF includes(userMessage, <<"e","x","p","e","r","i","e","n","c","e">>) THEN experienceResponse(context)
            ELSE generalResponse(context)
        last == Len(context.chatHistory)
    IN IF last = 0 THEN Returned(answer(<<>>))
       ELSE IF ~isString(context.chatHistory[last].content)
       THEN Thrown(callError(context.chatHistory[last].content,
                             <<"c","o","n","t","e","x","t",".","c","h","a","t","H","i","s","t","o","r","y","[","(","c","o","n","t","e","x","t",".","c","h","a","t","H","i","s","t","o","r","y",".","l","e","n","g","t","h"," ","-"," ","1",")","]","?",".","c","o","n","t","e","n","t">>,
                             <<"t","o","L","o","w","e","r","C","a","s","e">>))
       ELSE Returned(answer(toLowerCase(context.chatHistory[last].content)))

\* ChatbotService.generateResponse after the timer of the mock: what the mock
\* throws is answered with the apology
generateResponse(session) ==
    LET caught(response) == IF response.threw THEN unavailableResponse ELSE response.value
    IN caught(mockLLMResponse(buildLLMContext(session)))

---------------------------------------------------------------------------
(* The chatbot at work: sessions are created, and two calls of sendMessage  *)
(* run on one service, each up to its await and from there on. The timers   *)
(* of the mock run for the same time, so the calls resume in the order in   *)
(* which they began to wait.                                                *)

\* a candidate who passes the screening for the job, and one who fails it
ChatCandidate ==
    [fullName |-> <<"J","a","n","e"," ","S","m","i","t","h">>, email |-> <<"j","@","x",".","i","o">>, phone |-> <<"5","5","5","1","2","3","4","5","6","7">>,
     education |-> <<BachelorCS>>, workExperience |-> <<SoftwareEngineerJob>>,
     skills |-> << Skill(<<"J","a","v","a","S","c","r","i","p","t">>), Skill(<<"R","e","a","c","t">>) >>,
     certifications |-> <<>>, rawText |-> Undefined]

ChatNewcomer ==
    [fullName |-> <<"A","l","e","x"," ","K","i","m">>, email |-> <<"a","@","x",".","i","o">>, phone |-> <<>>,
     education |-> <<>>, workExperience |-> <<>>, skills |-> <<>>,
     certifications |-> <<>>, rawText |-> Undefined]

ChatSubjects ==
    { [candidateProfile |-> candidate,
       jobDescription |-> FrontendJob,
       screeningResult |->
           evaluateAgainstCriteria(candidate, convertExcelJobToRequirements(FrontendJob))] :
      candidate \in {ChatCandidate, ChatNewcomer} }

SessionIds ==
    { generateSessionId(subject.candidateProfile.fullName, subject.jobDescription.id,
                        InitialYear) : subject \in ChatSubjects }

UserMessages ==
    { <<"W","h","y"," ","d","i","d"," ","t","h","e"," ","c","a","n","d","i","d","a","t","e"," ","p","a","s","s","?">>, <<"W","h","y"," ","d","i","d"," ","t","h","e","y"," ","f","a","i","l","?">>, <<"H","e","l","l","o">>, Undefined }

ChatInputs == {[sessionId |-> id, userMessage |-> m] : id \in SessionIds, m \in UserMessages}

NoSessions == <<>>

InitChat ==
    /\ profile = defaultProfile
    /\ requirements = NoRequirements
    /\ result = NoResult
    /\ calledAt = <<>>
    /\ earlier = NoSessions
    /\ now = InitialYear
    /\ input \in [Calls -> ChatInputs]
    /\ errors = <<>>
    /\ pending = [c \in Calls |-> NoOutcome]
    /\ thrown = NoThrow
    /\ pc = [c \in Calls |-> "idle"]

\* createSession(candidateProfile, jobDescription, screeningResult)
CreateSession ==
    /\ \E subject \in ChatSubjects :
           LET set(session) ==
                   /\ session.id \notin DOMAIN earlier
                   /\ earlier' = mapSet(earlier, session.id, session)
           IN set(newSession(subject.candidateProfile, subject.jobDescription,
                             subject.screeningResult, now))
    /\ UNCHANGED <<profile, requirements, result, calledAt, now, input, errors, pending,
                   thrown, pc>>

\* sendMessage of one call up to the await of the timer: the session is looked
\* up and the user message pushed
SendMessageStart(c) ==
    /\ pc[c] = "idle"
    /\ IF input[c].sessionId \notin DOMAIN earlier
       THEN /\ pending' = [pending EXCEPT ![c] =
                              [NoOutcome EXCEPT !.threw = TRUE,
                                                !.message = <<"C","h","a","t"," ","s","e","s","s","i","o","n"," ","n","o","t"," ","f","o","u","n","d">>]]
            /\ pc' = [pc EXCEPT ![c] = "failed"]
            /\ UNCHANGED <<earlier, calledAt>>
       ELSE /\ earlier' = [earlier EXCEPT ![input[c].sessionId].messages =
                              Append(@, ChatMessage("user", input[c].userMessage))]
            /\ calledAt' = Append(calledAt, c)
            /\ pc' = [pc EXCEPT ![c] = "awaiting"]
            /\ UNCHANGED pending
    /\ UNCHANGED <<profile, requirements, result, now, input, errors, thrown>>

\* sendMessage of one call from its timer on: the answer is made from the
\* session as it is now, and pushed
SendMessageResume(c) ==
    /\ pc[c] = "awaiting"
    /\ calledAt # <<>> /\ Head(calledAt) = c
    /\ LET return(aiResponse) ==
               /\ earlier' = [earlier EXCEPT ![input[c].sessionId].messages =
                                 Append(@, ChatMessage("assistant", aiResponse.message))]
               /\ pending' = [pending EXCEPT ![c] = [NoOutcome EXCEPT !.value = aiResponse]]
       IN return(generateResponse(earlier[input[c].sessionId]))
    /\ calledAt' = Tail(calledAt)
    /\ pc' = [pc EXCEPT ![c] = "returned"]
    /\ UNCHANGED <<profile, requirements, result, now, input, errors, thrown>>

NextChat == CreateSession \/ \E c \in Calls : SendMessageStart(c) \/ SendMessageResume(c)

SpecChat == InitChat /\ [][NextChat]_vars

---------------------------------------------------------------------------
(* Properties of the chat sessions                                         *)

\* no call waits for its answer in the session
Settled(id) == \A c \in Calls : input[c].sessionId = id => pc[c] # "awaiting"

\* the messages of every session on which no call is waiting are user,
\* assistant, user, assistant, ...
HistoryAlternates ==
    \A id \in DOMAIN earlier :
        Settled(id) =>
            \A k \in 1..Len(earlier[id].messages) :
                earlier[id].messages[k].role = IF k % 2 = 1 THEN "user" ELSE "assistant"

\* the answer to the message of a call, asked in its session on its own
AnswerToOwnMessage(c) ==
    generateResponse([earlier[input[c].sessionId] EXCEPT
                         !.messages = << ChatMessage("user", input[c].userMessage) >>])

\* the messages the calls have pushed to a session: one for a call that
\* waits, two for a call that has returned
MessagesPushedTo(id) ==
    Cardinality({c \in Calls : input[c].sessionId = id /\ pc[c] \in {"awaiting", "returned"}})
    + Cardinality({c \in Calls : input[c].sessionId = id /\ pc[c] = "returned"})

\* C30: the history of every session alternates user and assistant, every
\* answer is made from the user message of its own call, also when two calls
\* on a session overlap, and a call for an unknown session fails with 'Chat
\* session not found' and changes no session
C30_HistoryAlternatesAndAnswersOwnMessage ==
    /\ HistoryAlternates
    /\ \A c \in Calls :
           /\ pc[c] = "returned" => pending[c].value = AnswerToOwnMessage(c)
           /\ pc[c] = "failed" =>
                  /\ pending[c].threw
                  /\ pending[c].message = <<"C","h","a","t"," ","s","e","s","s","i","o","n"," ","n","o","t"," ","f","o","u","n","d">>
    /\ \A id \in DOMAIN earlier : Len(earlier[id].messages) = MessagesPushedTo(id)

====
